---- MODULE Spec2Model ----
(***************************************************************************)
(* OAuth 2.0 authorization-code flow and credential lifecycle of the       *)
(* time-tracking server: the two callback handlers (GET /oauth-callback,   *)
(* POST /api/jira/oauth/callback), the OAuth service they drive, the       *)
(* Credential Store (app settings) and the process-wide environment that   *)
(* holds AuthMode and the live tokens.                                     *)
(*                                                                         *)
(* Strings whose content matters (messages, URLs) are sequences of tokens: *)
(* a token is either a run of URI-unreserved characters or one reserved    *)
(* character.  Opaque values (tokens, ids, keys) are atomic strings.       *)
(*                                                                         *)
(* Every await of a handler is a suspension point: one action is the code  *)
(* between two awaits.                                                     *)
(***************************************************************************)
EXTENDS Integers, Sequences, FiniteSets, TLC

\* ------------------------------------------------------------------ values

\* JavaScript undefined: an absent query parameter, setting or field.
None == "<undefined>"

\* Largest number of sites a discovery response lists.
MaxSites == 2

\* The endpoint fetches of one FileMaker request the model follows.
MaxFmAttempts == 3

\* The concurrent callback invocations.
Invocations == {1, 2}

Codes == {None, "", "CODE123"}
AccessTokens == {"AT1", "AT2"}
RefreshTokens == {None, "RT1", "RT2"}
ClientIds == {"", "abc"}
ClientSecrets == {"", "xyz"}

SP == " "

\* Truthiness of a string-or-undefined value, as `if (v)` / `!v` / `!!v`.
Truthy(v) == v # None /\ v # ""

\* Truthiness of a query parameter carried as [present, val].
TruthyParam(p) == p.present /\ p.val # <<>>

\* The `error` query parameter: absent, empty, a plain code, or a text with
\* reserved characters.
ErrorParams ==
    { [present |-> FALSE, val |-> <<>>],
      [present |-> TRUE, val |-> <<>>],
      [present |-> TRUE, val |-> <<"access_denied">>],
      [present |-> TRUE, val |-> <<"user", SP, "denied", "&", "x", "=", "1">>] }

Sites ==
    { [id |-> "site-1", name |-> "Acme", url |-> "https://acme.atlassian.net"],
      [id |-> "site-2", name |-> "Beta", url |-> "https://beta.atlassian.net"] }

NoSite == [id |-> None, name |-> None, url |-> None]

ResourceLists == UNION { [1..n -> Sites] : n \in 0..MaxSites }

TokenSets == [access_token : AccessTokens, refresh_token : RefreshTokens]

NoTokens == [access_token |-> None, refresh_token |-> None]

NoSvc == [clientId |-> None, clientSecret |-> None, redirectUri |-> <<>>]

\* ------------------------------------------------------------- store keys

K_CLIENT_ID == "JIRA_OAUTH_CLIENT_ID"
K_CLIENT_SECRET == "JIRA_OAUTH_CLIENT_SECRET"
K_ACCESS == "JIRA_OAUTH_ACCESS_TOKEN"
K_REFRESH == "JIRA_OAUTH_REFRESH_TOKEN"
K_SITE_ID == "JIRA_SITE_ID"
K_SITE_URL == "JIRA_SITE_URL"
K_SITE_NAME == "JIRA_SITE_NAME"

StoreKeys ==
    {K_CLIENT_ID, K_CLIENT_SECRET, K_ACCESS, K_REFRESH, K_SITE_ID, K_SITE_URL, K_SITE_NAME}

E_AUTH_TYPE == "JIRA_AUTH_TYPE"
E_DOMAIN == "JIRA_DOMAIN"
E_USERNAME == "JIRA_USERNAME"
E_API_TOKEN == "JIRA_API_TOKEN"

\* The variables createJiraOAuthService reads the deployment from.
E_CUSTOM_DOMAIN == "REPLIT_CUSTOM_DOMAIN"
E_REPL_ID == "REPL_ID"
E_REPL_OWNER == "REPL_OWNER"
E_REPL_SLUG == "REPL_SLUG"

DeploymentKeys == {E_CUSTOM_DOMAIN, E_REPL_ID, E_REPL_OWNER, E_REPL_SLUG}

EnvKeys ==
    {E_AUTH_TYPE, K_ACCESS, K_REFRESH, K_SITE_ID, E_DOMAIN, E_USERNAME, E_API_TOKEN}
      \cup DeploymentKeys

\* ---------------------------------------------------------------- strings

\* encodeURIComponent, token by token: unreserved runs are kept, each
\* reserved character becomes its percent escape.
EncodeToken(t) ==
    CASE t = " " -> "%20"
      [] t = ":" -> "%3A"
      [] t = "&" -> "%26"
      [] t = "=" -> "%3D"
      [] t = "?" -> "%3F"
      [] t = "/" -> "%2F"
      [] t = "," -> "%2C"
      [] t = "%" -> "%25"
      [] OTHER -> t

RECURSIVE EncodeURIComponent(_)
EncodeURIComponent(s) ==
    IF s = <<>> THEN <<>>
    ELSE <<EncodeToken(Head(s))>> \o EncodeURIComponent(Tail(s))

\* decodeURIComponent on the tokens EncodeToken produces.
DecodeToken(t) ==
    CASE t = "%20" -> " "
      [] t = "%3A" -> ":"
      [] t = "%26" -> "&"
      [] t = "%3D" -> "="
      [] t = "%3F" -> "?"
      [] t = "%2F" -> "/"
      [] t = "%2C" -> ","
      [] t = "%25" -> "%"
      [] OTHER -> t

RECURSIVE DecodeURIComponent(_)
DecodeURIComponent(s) ==
    IF s = <<>> THEN <<>>
    ELSE <<DecodeToken(Head(s))>> \o DecodeURIComponent(Tail(s))

\* The raw text of a query value: the tokens up to the next "&" or "#".
RECURSIVE UpToDelimiter(_)
UpToDelimiter(s) ==
    IF s = <<>> \/ Head(s) \in {"&", "#"} THEN <<>>
    ELSE <<Head(s)>> \o UpToDelimiter(Tail(s))

\* What the browser reads back from a redirect URL "/settings?<name>=<value>":
\* the name of its first query parameter and that parameter's decoded value.
RedirectParamName(url) == IF Len(url) >= 3 THEN url[3] ELSE None

RedirectParamValue(url) ==
    IF Len(url) >= 4 THEN DecodeURIComponent(UpToDelimiter(SubSeq(url, 5, Len(url))))
    ELSE <<>>

\* --------------------------------------------------------------- messages

\* What one fetch-based provider call can end in.  kind: "ok" (2xx with a
\* JSON body), "http" (non-2xx with a text body), "abort" (the 30 s timer
\* fired), "enotfound" (DNS failure), "neterr" (another fetch failure),
\* "badjson" (2xx whose body does not parse).
Outcome(kind, status, text, tokens, resources) ==
    [kind |-> kind, status |-> status, text |-> text, tokens |-> tokens, resources |-> resources]

NoOutcome == Outcome("none", None, <<>>, NoTokens, <<>>)

FetchFailures ==
    { Outcome("http", "400", <<"invalid_grant">>, NoTokens, <<>>),
      Outcome("http", "503", <<"error", "=", "busy", "&", "retry", "=", "1">>, NoTokens, <<>>),
      Outcome("abort", None, <<>>, NoTokens, <<>>),
      Outcome("enotfound", None, <<>>, NoTokens, <<>>),
      Outcome("neterr", None, <<"fetch", SP, "failed">>, NoTokens, <<>>),
      Outcome("badjson", None, <<"Unexpected", SP, "token">>, NoTokens, <<>>) }

ExchangeOutcomes ==
    { Outcome("ok", "200", <<>>, t, <<>>) : t \in TokenSets } \cup FetchFailures

\* The provider issues every grant its own tokens: what the exchange of
\* invocation i can end in, with or without a refresh token.
IssuedTokens(i) ==
    { [access_token |-> IF i = 1 THEN "AT1" ELSE "AT2", refresh_token |-> r] :
        r \in {None, IF i = 1 THEN "RT1" ELSE "RT2"} }

ExchangeOutcomesOf(i) ==
    { o \in ExchangeOutcomes : o.kind = "ok" => o.tokens \in IssuedTokens(i) }

DiscoveryOutcomes ==
    { Outcome("ok", "200", <<>>, NoTokens, r) : r \in ResourceLists } \cup FetchFailures

\* The message of the error exchangeCodeForTokens rejects with.  The HTTP
\* error is thrown inside the try block, so the catch block wraps it again;
\* a body that fails to parse rejects outside the try/catch (the promise of
\* response.json() is returned, not awaited).
ExchangeErrorMessage(o) ==
    CASE o.kind = "abort" ->
           <<"OAuth", SP, "token", SP, "exchange", SP, "timed", SP, "out", SP,
             "after", SP, "30", SP, "seconds">>
      [] o.kind = "enotfound" ->
           <<"Network", SP, "connectivity", SP, "issue", ":", SP, "Unable", SP, "to", SP,
             "reach", SP, "Atlassian", SP, "servers.", SP, "Please", SP, "check", SP,
             "your", SP, "internet", SP, "connection.">>
      [] o.kind = "http" ->
           <<"OAuth", SP, "token", SP, "exchange", SP, "failed", ":", SP,
             "OAuth", SP, "token", SP, "exchange", SP, "failed", SP,
             "(", o.status, ")", ":", SP>> \o o.text
      [] o.kind = "neterr" ->
           <<"OAuth", SP, "token", SP, "exchange", SP, "failed", ":", SP>> \o o.text
      [] OTHER -> o.text

\* The message of the error getAccessibleResources rejects with.
ResourcesErrorMessage(o) ==
    CASE o.kind = "abort" ->
           <<"Request", SP, "to", SP, "get", SP, "accessible", SP, "resources", SP,
             "timed", SP, "out", SP, "after", SP, "30", SP, "seconds">>
      [] o.kind = "enotfound" ->
           <<"Network", SP, "connectivity", SP, "issue", ":", SP, "Unable", SP, "to", SP,
             "reach", SP, "Atlassian", SP, "API", SP, "servers.">>
      [] o.kind = "http" ->
           <<"Failed", SP, "to", SP, "get", SP, "accessible", SP, "resources", ":", SP,
             "Failed", SP, "to", SP, "get", SP, "accessible", SP, "resources", SP,
             "(", o.status, ")", ":", SP>> \o o.text
      [] o.kind = "neterr" ->
           <<"Failed", SP, "to", SP, "get", SP, "accessible", SP, "resources", ":", SP>>
             \o o.text
      [] OTHER -> o.text

\* Messages of the errors a Credential Store call can reject with.
StoreErrors == { <<>>, <<"connection", SP, "terminated">> }

\* --------------------------------------------------------------- responses

NoBody ==
    [success |-> FALSE, error |-> None, siteName |-> None, siteUrl |-> None,
     accessibleSites |-> 0]

NoResponse == [type |-> "none", status |-> 0, url |-> <<>>, body |-> NoBody]

Redirect(url) == [type |-> "redirect", status |-> 302, url |-> url, body |-> NoBody]

Json(status, body) == [type |-> "json", status |-> status, url |-> <<>>, body |-> body]

JsonError(status, text) == Json(status, [NoBody EXCEPT !.error = text])

SettingsError == <<"/settings", "?", "error", "=">>

ErrorRedirectRaw(msg) == SettingsError \o msg

\* res.redirect(`/settings?error=${encodeURIComponent(msg)}`)
ErrorRedirect(msg) == SettingsError \o EncodeURIComponent(msg)

NoCodeRedirect == SettingsError \o <<"no_code">>

NotConfiguredRedirect == SettingsError \o <<"oauth_not_configured">>

NoSitesRedirect == SettingsError \o <<"no_jira_sites">>

SuccessRedirect == <<"/settings", "?", "success", "=", "oauth_connected">>

\* error.message || 'token_exchange_failed'
CatchMessage(m) == IF m = <<>> THEN <<"token_exchange_failed">> ELSE m

GetCatchJson(m) == JsonError(500, "OAuth authentication failed")

\* The catch block of GET /oauth-callback.
GetCatch(m) == Redirect(ErrorRedirect(CatchMessage(m)))

\* The catch block of POST /api/jira/oauth/callback.
PostCatch == JsonError(500, "OAuth authentication failed")

PostSuccess(site, n) ==
    Json(200, [success |-> TRUE, error |-> None, siteName |-> site.name,
               siteUrl |-> site.url, accessibleSites |-> n])

\* ------------------------------------------------------ handler decisions

GetGuardCodeFirst(q) ==
    IF ~Truthy(q.code) THEN "no_code"
    ELSE IF TruthyParam(q.error) THEN "error"
    ELSE "proceed"

\* The guards of GET /oauth-callback that run before the first await.
GetGuard(q) ==
    IF TruthyParam(q.error) THEN "error"
    ELSE IF ~Truthy(q.code) THEN "no_code"
    ELSE "proceed"

\* createJiraOAuthService returns null unless both settings have a value.
ConfigPresent(id, secret) == Truthy(id) /\ Truthy(secret)

\* The base URL createJiraOAuthService takes for the deployment: the custom
\* domain, the fixed deployment domain on Replit, or local development.
DeploymentBaseUrl(e) ==
    IF Truthy(e[E_CUSTOM_DOMAIN])
    THEN <<"https", ":", "/", "/", e[E_CUSTOM_DOMAIN]>>
    ELSE IF Truthy(e[E_REPL_ID]) /\ Truthy(e[E_REPL_OWNER]) /\ Truthy(e[E_REPL_SLUG])
    THEN <<"https", ":", "/", "/", "jira-time-1.replit.app">>
    ELSE <<"http", ":", "/", "/", "localhost", ":", "5000">>

\* const redirectUri = `${baseUrl}/oauth-callback`
RedirectUri(e) == DeploymentBaseUrl(e) \o <<"/", "oauth-callback">>

HasNoSitesNever(resources) == FALSE

\* resources.length === 0
HasNoSites(resources) == Len(resources) = 0

PrimarySiteLast(resources) ==
    IF resources = <<>> THEN NoSite ELSE resources[Len(resources)]

\* const primarySite = resources[0]: undefined for an empty array.
PrimarySite(resources) == IF resources = <<>> THEN NoSite ELSE resources[1]

\* The TypeError of reading primarySite.name when primarySite is undefined.
UndefinedSiteMessage ==
    <<"Cannot", SP, "read", SP, "properties", SP, "of", SP, "undefined", SP,
      "(reading", SP, "'name')">>

\* process.env coerces every assigned value to a string.
EnvString(v) == IF v = None THEN "undefined" ELSE v

\* The four process.env assignments both callbacks make, with no await
\* between them.
CallbackEnvKeepsSite(e, tokens, site) ==
    [e EXCEPT ![E_AUTH_TYPE] = "oauth",
              ![K_ACCESS] = EnvString(tokens.access_token),
              ![K_REFRESH] = EnvString(tokens.refresh_token)]

CallbackEnv(e, tokens, site) ==
    [e EXCEPT ![E_AUTH_TYPE] = "oauth",
              ![K_ACCESS] = EnvString(tokens.access_token),
              ![K_REFRESH] = EnvString(tokens.refresh_token),
              ![K_SITE_ID] = EnvString(site.id)]

\* The Credential Store writes of GET /oauth-callback, in order: the
\* position of the handler, the key it sets there and the value.
WriteKey(p) ==
    CASE p = "w_access" -> K_ACCESS
      [] p = "w_refresh" -> K_REFRESH
      [] p = "w_site_id" -> K_SITE_ID
      [] p = "w_site_url" -> K_SITE_URL
      [] p = "w_site_name" -> K_SITE_NAME

WriteValueUrlAsSiteId(p, tokens, site) ==
    CASE p = "w_access" -> tokens.access_token
      [] p = "w_refresh" -> tokens.refresh_token
      [] p = "w_site_id" -> site.url
      [] p = "w_site_url" -> site.url
      [] p = "w_site_name" -> site.name

WriteValue(p, tokens, site) ==
    CASE p = "w_access" -> tokens.access_token
      [] p = "w_refresh" -> tokens.refresh_token
      [] p = "w_site_id" -> site.id
      [] p = "w_site_url" -> site.url
      [] p = "w_site_name" -> site.name

AfterWriteSkipSiteName(p, tokens) ==
    CASE p = "w_access" -> IF Truthy(tokens.refresh_token) THEN "w_refresh" ELSE "w_site_id"
      [] p = "w_refresh" -> "w_site_id"
      [] p = "w_site_id" -> "w_site_url"
      [] p = "w_site_url" -> "finish"
      [] p = "w_site_name" -> "finish"

AfterWriteStartsOver(p, tokens) ==
    CASE p = "w_access" -> IF Truthy(tokens.refresh_token) THEN "w_refresh" ELSE "w_site_id"
      [] p = "w_refresh" -> "w_site_id"
      [] p = "w_site_id" -> "w_site_url"
      [] p = "w_site_url" -> "w_site_name"
      [] p = "w_site_name" -> "cfg_id"

AfterWriteAlwaysRefresh(p, tokens) ==
    CASE p = "w_access" -> "w_refresh"
      [] p = "w_refresh" -> "w_site_id"
      [] p = "w_site_id" -> "w_site_url"
      [] p = "w_site_url" -> "w_site_name"
      [] p = "w_site_name" -> "finish"

\* The refresh token is written only if (tokens.refresh_token).
AfterWrite(p, tokens) ==
    CASE p = "w_access" -> IF Truthy(tokens.refresh_token) THEN "w_refresh" ELSE "w_site_id"
      [] p = "w_refresh" -> "w_site_id"
      [] p = "w_site_id" -> "w_site_url"
      [] p = "w_site_url" -> "w_site_name"
      [] p = "w_site_name" -> "finish"

WritePositions == {"w_access", "w_refresh", "w_site_id", "w_site_url", "w_site_name"}

StorePositions == {"cfg_id", "cfg_secret"} \cup WritePositions

\* ------------------------------------------------------------------- state

VARIABLES
    store,        \* Credential Store: key -> value, None when the key is absent
    storeWriter,  \* history: who last set each key ("none", "admin" or an invocation)
    env,          \* process.env: AuthMode, live tokens, basic credentials
    inv,          \* per callback invocation: position and locals of the handler
    hist,         \* history per invocation: calls made, writes done, responses sent
    response,     \* per callback invocation: the response sent to the browser
    cfgReq,       \* POST /api/oauth/config in progress
    bg,           \* the other request of the client: the one in flight, its response
    page,         \* the client callback page: its query, its opener, what it did
    call,         \* an outbound call of a service: its target, its fetch, its result
    csrf,         \* history: the state values auth-url has returned, those callbacks used
    admin,        \* the admin setup page: its origin, its password gate, the URL it shows
    fm,           \* a FileMakerService: its cached token, its request under way
    gen           \* an application of generateAuthUrl: its inputs, the URL, the query parsed

vars == <<store, storeWriter, env, inv, hist, response, cfgReq, bg, page, call, csrf, admin, fm, gen>>

OAuthConfigFirst(id, secret) ==
    [clientId |-> "abc", clientSecret |-> "xyz", redirectUri |-> RedirectUri(env)]

\* The config the service is constructed with: the two values just read and
\* the redirect URI of the deployment.
OAuthConfigOf(id, secret) ==
    [clientId |-> id, clientSecret |-> secret, redirectUri |-> RedirectUri(env)]

NoError == [present |-> FALSE, val |-> <<>>]

\* A callback request that carries no state parameter.
NoState == <<>>

Idle ==
    [pc |-> "idle", kind |-> "none", code |-> None, state |-> <<>>, error |-> NoError,
     cfgId |-> None,
     svc |-> NoSvc, net |-> NoOutcome, tokens |-> NoTokens, site |-> NoSite, nres |-> 0]

\* A handler that has returned: its locals are gone.
Returned(kind) == [Idle EXCEPT !.pc = "done", !.kind = kind]

\* exchange, discovery, sets, envWrites, responses: how many token-exchange
\* calls, discovery calls, Credential Store set calls, process.env updates
\* and responses the invocation has made; listed: how many sites its
\* discovery listed (-1 before it answered), first: the first of them;
\* wrote: the value it set under each key.
NoHist ==
    [exchange |-> 0, discovery |-> 0, sets |-> 0, envWrites |-> 0, responses |-> 0,
     listed |-> -1, first |-> NoSite, wrote |-> [k \in StoreKeys |-> None]]

NoCfgReq == [pc |-> "idle", clientId |-> None, clientSecret |-> None]

NoSigner == [authType |-> "none", baseUrl |-> <<>>, scheme |-> None, credential |-> <<>>]

\* The body of a GET /api/oauth/config response not yet sent.
NoConfigBody == [configured |-> FALSE, hasClientId |-> FALSE, hasClientSecret |-> FALSE]

NoBgResponse ==
    [status |-> 0, oauthConfigured |-> FALSE, authenticated |-> FALSE, authType |-> None,
     tokens |-> NoTokens, config |-> NoConfigBody, authUrl |-> <<>>, state |-> <<>>]

NoBg ==
    [op |-> "none", pc |-> "idle", signer |-> NoSigner, cfgId |-> None, resp |-> NoBgResponse]

\* The callback page before it is loaded: the query parameters as
\* URLSearchParams.get returns them, whether the window has an opener, the
\* message posted to the opener, whether the window closed itself, where it
\* navigated and by which means.
NoPage ==
    [pc |-> "idle", code |-> None, state |-> None, error |-> NoError, opener |-> FALSE,
     posted |-> [type |-> None, code |-> None, state |-> None, error |-> <<>>],
     closed |-> FALSE, navigated |-> <<>>, via |-> None]

\* No outbound call under way.
NoData == [tokens |-> NoTokens, resources |-> <<>>]

NoCall ==
    [pc |-> "idle", fn |-> None, remote |-> None, net |-> NoOutcome,
     settled |-> None, message |-> <<>>, data |-> NoData]

\* No state value returned by auth-url yet, none used by a callback.
NoCsrf == [issued |-> {}, consumed |-> {}]

\* The admin setup page not opened.
NoAdmin ==
    [pc |-> "closed", origin |-> <<>>, isAuthenticated |-> FALSE, callbackUrl |-> <<>>,
     saved |-> FALSE]

\* A FileMakerService just constructed: no token cached, no request made.
\* endpoint: the request under way; bearer: the token its fetch carries;
\* sessions, attempts: the POST /sessions calls and the endpoint fetches
\* made for it; settled: what makeRequest resolved or rejected with.
NoFm ==
    [pc |-> "idle", token |-> None, endpoint |-> None, bearer |-> None,
     sessions |-> 0, attempts |-> 0, settled |-> <<>>]

\* generateAuthUrl not applied.
NoGen == [pc |-> "idle", config |-> NoSvc, state |-> <<>>, url |-> <<>>, parsed |-> <<>>]

Init ==
    /\ store = [k \in StoreKeys |-> None]
    /\ storeWriter = [k \in StoreKeys |-> "none"]
    /\ env = [k \in EnvKeys |-> None]
    /\ inv = [i \in Invocations |-> Idle]
    /\ hist = [i \in Invocations |-> NoHist]
    /\ response = [i \in Invocations |-> NoResponse]
    /\ cfgReq = NoCfgReq
    /\ bg = NoBg
    /\ page = NoPage
    /\ call = NoCall
    /\ csrf = NoCsrf
    /\ admin = NoAdmin
    /\ fm = NoFm
    /\ gen = NoGen

\* The handler of invocation i sends resp and returns.
Respond(i, resp) ==
    /\ inv' = [inv EXCEPT ![i] = Returned(inv[i].kind)]
    /\ response' = [response EXCEPT ![i] = resp]

\* The history of an invocation whose handler sends its response and returns.
Sent(h) ==
    [h EXCEPT !.responses = @ + 1, !.first = NoSite, !.wrote = [k \in StoreKeys |-> None]]

\* The history of an invocation whose discovery listed these resources.
Listed(h, resources) ==
    [h EXCEPT !.listed = Len(resources),
              !.first = IF resources = <<>> THEN NoSite ELSE resources[1]]

CatchWithSecret(i, m) ==
    IF inv[i].kind = "GET"
    THEN GetCatch(m \o <<SP, "client_secret", "=", inv[i].svc.clientSecret>>)
    ELSE PostCatch

\* What the handler of invocation i sends when a call it awaited rejects
\* with message m.
Catch(i, m) == IF inv[i].kind = "GET" THEN GetCatch(m) ELSE PostCatch

\* ----------------------------------------------------- GET /oauth-callback

\* The identity provider redirects a browser to
\* /oauth-callback?code&state&error.
GetArrive(i, code, state, error) ==
    /\ inv[i].pc = "idle"
    /\ inv' = [inv EXCEPT ![i] = [Idle EXCEPT !.pc = "received", !.kind = "GET",
                                              !.code = code, !.state = state,
                                              !.error = error]]
    /\ UNCHANGED <<store, storeWriter, env, hist, response, cfgReq, bg, page, call, csrf, admin, fm, gen>>

\* The handler starts and runs to its first await.
GetBegin(i) ==
    /\ inv[i].pc = "received"
    /\ inv[i].kind = "GET"
    /\ LET g == GetGuard(inv[i])
       IN \/ /\ g = "error"
             /\ Respond(i, Redirect(ErrorRedirect(inv[i].error.val)))
             /\ hist' = [hist EXCEPT ![i] = Sent(@)]
          \/ /\ g = "no_code"
             /\ Respond(i, Redirect(NoCodeRedirect))
             /\ hist' = [hist EXCEPT ![i] = Sent(@)]
          \/ /\ g = "proceed"
             /\ inv' = [inv EXCEPT ![i].pc = "cfg_id", ![i].error = NoError]
             /\ UNCHANGED <<response, hist>>
    /\ UNCHANGED <<store, storeWriter, env, cfgReq, bg, page, call, csrf, admin, fm, gen>>

\* -------------------------------------------- POST /api/jira/oauth/callback

\* The settings page posts {code, state}.
PostArrive(i, code, state) ==
    /\ inv[i].pc = "idle"
    /\ inv' = [inv EXCEPT ![i] = [Idle EXCEPT !.pc = "received", !.kind = "POST",
                                              !.code = code, !.state = state]]
    /\ UNCHANGED <<store, storeWriter, env, hist, response, cfgReq, bg, page, call, csrf, admin, fm, gen>>

\* The handler starts and runs to its first await.
PostBegin(i) ==
    /\ inv[i].pc = "received"
    /\ inv[i].kind = "POST"
    /\ \/ /\ ~Truthy(inv[i].code)
          /\ Respond(i, JsonError(400, "Authorization code is required"))
          /\ hist' = [hist EXCEPT ![i] = Sent(@)]
       \/ /\ Truthy(inv[i].code)
          /\ inv' = [inv EXCEPT ![i].pc = "cfg_id"]
          /\ UNCHANGED <<response, hist>>
    /\ UNCHANGED <<store, storeWriter, env, cfgReq, bg, page, call, csrf, admin, fm, gen>>

\* -------------------------------------------------- createJiraOAuthService

\* await storage.getAppSetting("JIRA_OAUTH_CLIENT_ID")
ReadClientId(i) ==
    /\ inv[i].pc = "cfg_id"
    /\ inv' = [inv EXCEPT ![i].pc = "cfg_secret", ![i].cfgId = store[K_CLIENT_ID]]
    /\ UNCHANGED <<store, storeWriter, env, hist, response, cfgReq, bg, page, call, csrf, admin, fm, gen>>

\* await storage.getAppSetting("JIRA_OAUTH_CLIENT_SECRET"); the service is
\* built (or null returned), the handler resumes and, with a service, calls
\* exchangeCodeForTokens, whose fetch is then in flight.
ReadClientSecret(i) ==
    /\ inv[i].pc = "cfg_secret"
    /\ LET id == inv[i].cfgId
           secret == store[K_CLIENT_SECRET]
       IN \/ /\ ~ConfigPresent(id, secret)
             /\ Respond(i, IF inv[i].kind = "GET"
                            THEN Redirect(NotConfiguredRedirect)
                            ELSE JsonError(400, "OAuth not configured"))
             /\ hist' = [hist EXCEPT ![i] = Sent(@)]
             /\ UNCHANGED csrf
          \/ /\ ConfigPresent(id, secret)
             /\ inv' = [inv EXCEPT ![i].pc = "exchange",
                                   ![i].svc = OAuthConfigOf(id, secret)]
             /\ hist' = [hist EXCEPT ![i].exchange = @ + 1]
             /\ csrf' = [csrf EXCEPT !.consumed = @ \cup {inv[i].state}]
             /\ UNCHANGED response
    /\ UNCHANGED <<store, storeWriter, env, cfgReq, bg, page, call, admin, fm, gen>>

\* A Credential Store call of the handler rejects.
StoreThrow(i) ==
    /\ inv[i].pc \in StorePositions
    /\ \E m \in StoreErrors : Respond(i, Catch(i, m))
    /\ hist' = [hist EXCEPT ![i] = Sent(@)]
    /\ UNCHANGED <<store, storeWriter, env, cfgReq, bg, page, call, csrf, admin, fm, gen>>

\* ------------------------------------------------------ provider responses

\* The token endpoint answers, fails, or the 30 s timer aborts the fetch.
ExchangeRespond(i, o) ==
    /\ inv[i].pc = "exchange"
    /\ inv' = [inv EXCEPT ![i].pc = "exchange_ret", ![i].net = o]
    /\ UNCHANGED <<store, storeWriter, env, hist, response, cfgReq, bg, page, call, csrf, admin, fm, gen>>

\* The handler resumes after exchangeCodeForTokens and, with tokens, calls
\* getAccessibleResources(tokens.access_token).
ExchangeResume(i) ==
    /\ inv[i].pc = "exchange_ret"
    /\ LET o == inv[i].net
       IN \/ /\ o.kind = "ok"
             /\ inv' = [inv EXCEPT ![i].pc = "discovery", ![i].net = NoOutcome,
                                   ![i].svc = NoSvc, ![i].tokens = o.tokens]
             /\ hist' = [hist EXCEPT ![i].discovery = @ + 1]
             /\ UNCHANGED response
          \/ /\ o.kind # "ok"
             /\ Respond(i, Catch(i, ExchangeErrorMessage(o)))
             /\ hist' = [hist EXCEPT ![i] = Sent(@)]
    /\ UNCHANGED <<store, storeWriter, env, cfgReq, bg, page, call, csrf, admin, fm, gen>>

\* The accessible-resources endpoint answers, fails, or the fetch is aborted.
DiscoveryRespond(i, o) ==
    /\ inv[i].pc = "discovery"
    /\ inv' = [inv EXCEPT ![i].pc = "discovery_ret", ![i].net = o]
    /\ UNCHANGED <<store, storeWriter, env, hist, response, cfgReq, bg, page, call, csrf, admin, fm, gen>>

\* GET /oauth-callback resumes after getAccessibleResources.
GetDiscoveryResume(i) ==
    /\ inv[i].pc = "discovery_ret"
    /\ inv[i].kind = "GET"
    /\ LET o == inv[i].net
           site == PrimarySite(o.resources)
       IN \/ /\ o.kind = "ok"
             /\ HasNoSites(o.resources)
             /\ Respond(i, Redirect(NoSitesRedirect))
             /\ hist' = [hist EXCEPT ![i] = Sent(Listed(@, o.resources))]
          \/ /\ o.kind = "ok"
             /\ ~HasNoSites(o.resources)
             /\ IF site = NoSite
                THEN /\ Respond(i, Catch(i, UndefinedSiteMessage))
                     /\ hist' = [hist EXCEPT ![i] = Sent(Listed(@, o.resources))]
                ELSE /\ inv' = [inv EXCEPT ![i].pc = "w_access", ![i].net = NoOutcome,
                                           ![i].site = site]
                     /\ hist' = [hist EXCEPT ![i] = Listed(@, o.resources)]
                     /\ UNCHANGED response
          \/ /\ o.kind # "ok"
             /\ Respond(i, Catch(i, ResourcesErrorMessage(o)))
             /\ hist' = [hist EXCEPT ![i] = Sent(@)]
    /\ UNCHANGED <<store, storeWriter, env, cfgReq, bg, page, call, csrf, admin, fm, gen>>

\* One await storage.setAppSetting(key, value) of GET /oauth-callback.
CallbackStoreSet(i) ==
    /\ inv[i].pc \in WritePositions
    /\ LET p == inv[i].pc
           k == WriteKey(p)
           v == WriteValue(p, inv[i].tokens, inv[i].site)
       IN /\ store' = [store EXCEPT ![k] = v]
          /\ storeWriter' = [storeWriter EXCEPT ![k] = i]
          /\ hist' = [hist EXCEPT ![i].sets = @ + 1, ![i].wrote[k] = v]
          /\ inv' = [inv EXCEPT ![i].pc = AfterWrite(p, inv[i].tokens)]
    /\ UNCHANGED <<env, response, cfgReq, bg, page, call, csrf, admin, fm, gen>>

\* After the last write: the process.env assignments and the success redirect.
GetFinish(i) ==
    /\ inv[i].pc = "finish"
    /\ inv[i].kind = "GET"
    /\ env' = CallbackEnv(env, inv[i].tokens, inv[i].site)
    /\ Respond(i, Redirect(SuccessRedirect))
    /\ hist' = [hist EXCEPT ![i] = [Sent(@) EXCEPT !.envWrites = @ + 1]]
    /\ UNCHANGED <<store, storeWriter, cfgReq, bg, page, call, csrf, admin, fm, gen>>

\* ------------------------------------------------------------ JiraService

SignerConfigIgnoresMode(e) ==
    [domain |-> e[E_DOMAIN], username |-> e[E_USERNAME], apiToken |-> e[E_API_TOKEN],
     accessToken |-> e[K_ACCESS], siteId |-> e[K_SITE_ID], authType |-> "basic"]

\* The config a JiraService built without arguments takes from process.env.
SignerConfigFromEnv(e) ==
    [domain |-> e[E_DOMAIN], username |-> e[E_USERNAME], apiToken |-> e[E_API_TOKEN],
     accessToken |-> e[K_ACCESS], siteId |-> e[K_SITE_ID],
     authType |-> IF Truthy(e[E_AUTH_TYPE]) THEN e[E_AUTH_TYPE] ELSE "basic"]

SignerCompleteAllFields(c) ==
    /\ Truthy(c.accessToken) /\ Truthy(c.siteId)
    /\ Truthy(c.domain) /\ Truthy(c.username) /\ Truthy(c.apiToken)

SignerCompleteEitherMode(c) ==
    \/ Truthy(c.accessToken) /\ Truthy(c.siteId)
    \/ Truthy(c.domain) /\ Truthy(c.username) /\ Truthy(c.apiToken)

\* The constructor throws unless the fields of the selected mode are all set.
SignerComplete(c) ==
    IF c.authType = "oauth"
    THEN Truthy(c.accessToken) /\ Truthy(c.siteId)
    ELSE Truthy(c.domain) /\ Truthy(c.username) /\ Truthy(c.apiToken)

\* baseUrl: one fixed base per mode, parameterized by the tenant.
BaseUrl(c) ==
    IF c.authType = "oauth"
    THEN <<"https://api.atlassian.com/ex/jira/", c.siteId, "/rest/api/3">>
    ELSE <<"https://", c.domain, ".atlassian.net/rest/api/3">>

\* getAuthHeader: the scheme and the credential it carries (the Basic
\* credential is the base64 of username:apiToken).
AuthSchemeByToken(c) == IF Truthy(c.accessToken) THEN "Bearer" ELSE "Basic"

AuthScheme(c) == IF c.authType = "oauth" /\ Truthy(c.accessToken) THEN "Bearer" ELSE "Basic"

AuthCredential(c) ==
    IF c.authType = "oauth" /\ Truthy(c.accessToken)
    THEN <<c.accessToken>>
    ELSE <<c.username, ":", c.apiToken>>

\* A constructed JiraService: what it captured from its config.
Signer(c) ==
    [authType |-> c.authType, baseUrl |-> BaseUrl(c), scheme |-> AuthScheme(c),
     credential |-> AuthCredential(c)]

\* ----------------------------- POST /api/jira/oauth/callback, continued

\* The handler resumes after getAccessibleResources: with a site it assigns
\* process.env, builds a JiraService from it and calls getProjects.
PostDiscoveryResume(i) ==
    /\ inv[i].pc = "discovery_ret"
    /\ inv[i].kind = "POST"
    /\ LET o == inv[i].net
           site == PrimarySite(o.resources)
       IN \/ /\ o.kind = "ok"
             /\ HasNoSites(o.resources)
             /\ Respond(i, JsonError(400, "No accessible Jira sites found"))
             /\ hist' = [hist EXCEPT ![i] = Sent(Listed(@, o.resources))]
             /\ UNCHANGED env
          \/ /\ o.kind = "ok"
             /\ ~HasNoSites(o.resources)
             /\ IF site = NoSite
                THEN /\ Respond(i, PostCatch)
                     /\ hist' = [hist EXCEPT ![i] =
                                   [Sent(Listed(@, o.resources)) EXCEPT !.envWrites = @ + 1]]
                     /\ env' = [CallbackEnv(env, inv[i].tokens, NoSite)
                                  EXCEPT ![K_SITE_ID] = env[K_SITE_ID]]
                ELSE /\ env' = CallbackEnv(env, inv[i].tokens, site)
                     /\ IF SignerComplete(SignerConfigFromEnv(env'))
                        THEN /\ inv' = [inv EXCEPT ![i].pc = "test_conn",
                                                   ![i].net = NoOutcome,
                                                   ![i].site = site,
                                                   ![i].nres = Len(o.resources)]
                             /\ hist' = [hist EXCEPT ![i] =
                                           [Listed(@, o.resources) EXCEPT !.envWrites = @ + 1]]
                             /\ UNCHANGED response
                        ELSE /\ Respond(i, JsonError(400,
                                     "Failed to connect to Jira with OAuth tokens"))
                             /\ hist' = [hist EXCEPT ![i] =
                                           [Sent(Listed(@, o.resources))
                                              EXCEPT !.envWrites = @ + 1]]
          \/ /\ o.kind # "ok"
             /\ Respond(i, Catch(i, ResourcesErrorMessage(o)))
             /\ hist' = [hist EXCEPT ![i] = Sent(@)]
             /\ UNCHANGED env
    /\ UNCHANGED <<store, storeWriter, cfgReq, bg, page, call, csrf, admin, fm, gen>>

\* jiraService.getProjects() settles: the test of the OAuth connection.
PostTestConnection(i) ==
    /\ inv[i].pc = "test_conn"
    /\ \/ /\ Respond(i, PostSuccess(inv[i].site, inv[i].nres))
          /\ hist' = [hist EXCEPT ![i] = Sent(@)]
       \/ /\ Respond(i, JsonError(400, "Failed to connect to Jira with OAuth tokens"))
          /\ hist' = [hist EXCEPT ![i] = Sent(@)]
    /\ UNCHANGED <<store, storeWriter, env, cfgReq, bg, page, call, csrf, admin, fm, gen>>

\* ----------------------------------------------------- POST /api/oauth/config

\* The request arrives and is validated.
ConfigBegin(id, secret) ==
    /\ cfgReq.pc = "idle"
    /\ \/ /\ ~(Truthy(id) /\ Truthy(secret))
          /\ UNCHANGED cfgReq
       \/ /\ Truthy(id) /\ Truthy(secret)
          /\ cfgReq' = [pc |-> "w_id", clientId |-> id, clientSecret |-> secret]
    /\ UNCHANGED <<store, storeWriter, env, inv, hist, response, bg, page, call, csrf, admin, fm, gen>>

\* await storage.setAppSetting("JIRA_OAUTH_CLIENT_ID", clientId)
ConfigSetClientId ==
    /\ cfgReq.pc = "w_id"
    /\ store' = [store EXCEPT ![K_CLIENT_ID] = cfgReq.clientId]
    /\ storeWriter' = [storeWriter EXCEPT ![K_CLIENT_ID] = "admin"]
    /\ cfgReq' = [cfgReq EXCEPT !.pc = "w_secret"]
    /\ UNCHANGED <<env, inv, hist, response, bg, page, call, csrf, admin, fm, gen>>

\* await storage.setAppSetting("JIRA_OAUTH_CLIENT_SECRET", clientSecret)
ConfigSetClientSecret ==
    /\ cfgReq.pc = "w_secret"
    /\ store' = [store EXCEPT ![K_CLIENT_SECRET] = cfgReq.clientSecret]
    /\ storeWriter' = [storeWriter EXCEPT ![K_CLIENT_SECRET] = "admin"]
    /\ cfgReq' = NoCfgReq
    /\ UNCHANGED <<env, inv, hist, response, bg, page, call, csrf, admin, fm, gen>>

\* ------------------------------------------------ POST /api/jira/credentials

BgResponse(status) == [NoBgResponse EXCEPT !.status = status]

BgDone(resp) == [NoBg EXCEPT !.resp = resp]

BgFlight(op, signer) == [NoBg EXCEPT !.op = op, !.pc = "flight", !.signer = signer]

\* A handler suspended at its second settings read, holding the first.
BgRead(op, id) == [NoBg EXCEPT !.op = op, !.pc = "read", !.cfgId = id]

CredentialsEnvResetsMode(e, domain, username, apiToken) ==
    [e EXCEPT ![E_DOMAIN] = domain, ![E_USERNAME] = username, ![E_API_TOKEN] = apiToken,
              ![E_AUTH_TYPE] = "basic"]

\* The three process.env assignments of POST /api/jira/credentials.
CredentialsEnv(e, domain, username, apiToken) ==
    [e EXCEPT ![E_DOMAIN] = domain, ![E_USERNAME] = username, ![E_API_TOKEN] = apiToken]

\* The request arrives: validation, the process.env assignments, then a
\* JiraService built from process.env whose getProjects call tests them.
CredentialsPost(domain, username, apiToken) ==
    /\ bg.pc = "idle"
    /\ \/ /\ ~(Truthy(domain) /\ Truthy(username) /\ Truthy(apiToken))
          /\ bg' = BgDone(BgResponse(400))
          /\ UNCHANGED env
       \/ /\ Truthy(domain) /\ Truthy(username) /\ Truthy(apiToken)
          /\ env' = CredentialsEnv(env, domain, username, apiToken)
          /\ bg' = IF SignerComplete(SignerConfigFromEnv(env'))
                   THEN BgFlight("credentials", Signer(SignerConfigFromEnv(env')))
                   ELSE BgDone(BgResponse(400))
    /\ UNCHANGED <<store, storeWriter, inv, hist, response, cfgReq, page, call, csrf, admin, fm, gen>>

\* getProjects settles.
CredentialsReturn(ok) ==
    /\ bg.pc = "flight"
    /\ bg.op = "credentials"
    /\ bg' = BgDone(BgResponse(IF ok THEN 200 ELSE 400))
    /\ UNCHANGED <<store, storeWriter, env, inv, hist, response, cfgReq, page, call, csrf, admin, fm, gen>>

\* ------------------------------------------------------- tracker API routes

\* A /api/jira/* route: a JiraService is built from process.env (the
\* constructor may throw) and its request is issued.
TrackerCall ==
    /\ bg.pc = "idle"
    /\ bg' = IF SignerComplete(SignerConfigFromEnv(env))
             THEN BgFlight("tracker", Signer(SignerConfigFromEnv(env)))
             ELSE BgDone(BgResponse(500))
    /\ UNCHANGED <<store, storeWriter, env, inv, hist, response, cfgReq, page, call, csrf, admin, fm, gen>>

\* The request settles: the JSON of a 2xx, or the route's 500.
TrackerReturn(ok) ==
    /\ bg.pc = "flight"
    /\ bg.op = "tracker"
    /\ bg' = BgDone(BgResponse(IF ok THEN 200 ELSE 500))
    /\ UNCHANGED <<store, storeWriter, env, inv, hist, response, cfgReq, page, call, csrf, admin, fm, gen>>

\* ------------------------------------------------- GET /api/jira/oauth/status

StatusBodyIdOnly(clientId, clientSecret, e) ==
    [NoBgResponse EXCEPT
       !.status = 200,
       !.oauthConfigured = Truthy(clientId),
       !.authenticated = e[E_AUTH_TYPE] = "oauth" /\ Truthy(e[K_ACCESS]) /\ Truthy(e[K_SITE_ID]),
       !.authType = IF Truthy(e[E_AUTH_TYPE]) THEN e[E_AUTH_TYPE] ELSE "basic"]

\* The body of the status response, from the two settings read and
\* process.env.
StatusBody(clientId, clientSecret, e) ==
    [NoBgResponse EXCEPT
       !.status = 200,
       !.oauthConfigured = Truthy(clientId) /\ Truthy(clientSecret),
       !.authenticated = e[E_AUTH_TYPE] = "oauth" /\ Truthy(e[K_ACCESS]) /\ Truthy(e[K_SITE_ID]),
       !.authType = IF Truthy(e[E_AUTH_TYPE]) THEN e[E_AUTH_TYPE] ELSE "basic"]

\* await storage.getAppSetting("JIRA_OAUTH_CLIENT_ID")
StatusReadClientId ==
    /\ bg.pc = "idle"
    /\ bg' = BgRead("status", store[K_CLIENT_ID])
    /\ UNCHANGED <<store, storeWriter, env, inv, hist, response, cfgReq, page, call, csrf, admin, fm, gen>>

\* await storage.getAppSetting("JIRA_OAUTH_CLIENT_SECRET"), then the response.
StatusRespond ==
    /\ bg.pc = "read"
    /\ bg.op = "status"
    /\ bg' = BgDone(StatusBody(bg.cfgId, store[K_CLIENT_SECRET], env))
    /\ UNCHANGED <<store, storeWriter, env, inv, hist, response, cfgReq, page, call, csrf, admin, fm, gen>>

\* --------------------------------------- JiraOAuthService.refreshAccessToken

\* refreshAccessToken(refreshToken) is called: its fetch is in flight.
RefreshCall ==
    /\ bg.pc = "idle"
    /\ bg' = BgFlight("refresh", NoSigner)
    /\ UNCHANGED <<store, storeWriter, env, inv, hist, response, cfgReq, page, call, csrf, admin, fm, gen>>

\* The token endpoint answers the refresh with a token set (its
\* refresh_token may be absent) or the call rejects; the result goes to the
\* caller.
RefreshReturn(o) ==
    /\ bg.pc = "flight"
    /\ bg.op = "refresh"
    /\ bg' = BgDone([BgResponse(IF o.kind = "ok" THEN 200 ELSE 500) EXCEPT !.tokens = o.tokens])
    /\ UNCHANGED <<store, storeWriter, env, inv, hist, response, cfgReq, page, call, csrf, admin, fm, gen>>

\* ------------------------------------------------------------ later requests

\* The browser has its response; a later callback request takes the slot.
NextRequest(i) ==
    /\ inv[i].pc = "done"
    /\ inv' = [inv EXCEPT ![i] = Idle]
    /\ hist' = [hist EXCEPT ![i] = NoHist]
    /\ response' = [response EXCEPT ![i] = NoResponse]
    /\ UNCHANGED <<store, storeWriter, env, cfgReq, bg, page, call, csrf, admin, fm, gen>>

\* ------------------------------------------------- client callback page

\* The `state` query parameter of the callback page.
PageStates == {None, "", "st1"}

NoMessage == [type |-> None, code |-> None, state |-> None, error |-> <<>>]

\* window.opener.postMessage({type: 'JIRA_OAUTH_ERROR', error}, origin)
ErrorMessage(error) == [NoMessage EXCEPT !.type = "JIRA_OAUTH_ERROR", !.error = error]

\* window.opener.postMessage({type: 'JIRA_OAUTH_CALLBACK', code, state}, origin)
CallbackMessage(code, state) ==
    [NoMessage EXCEPT !.type = "JIRA_OAUTH_CALLBACK", !.code = code, !.state = state]

\* `/oauth-callback?code=${encodeURIComponent(code)}&state=${encodeURIComponent(state || '')}`
ServerCallbackUrl(code, state) ==
    <<"/oauth-callback", "?", "code", "=">> \o EncodeURIComponent(<<code>>)
      \o <<"&", "state", "=">>
      \o EncodeURIComponent(IF Truthy(state) THEN <<state>> ELSE <<>>)

\* The branch the page's effect takes: error first, then code.
PageDecision(q) ==
    IF TruthyParam(q.error) THEN "error"
    ELSE IF Truthy(q.code) THEN "code"
    ELSE "none"

\* The browser loads the callback page with this query, with or without a
\* window opener.
PageLoad(code, state, error, opener) ==
    /\ page.pc = "idle"
    /\ page' = [NoPage EXCEPT !.pc = "loaded", !.code = code, !.state = state,
                              !.error = error, !.opener = opener]
    /\ UNCHANGED <<store, storeWriter, env, inv, hist, response, cfgReq, bg, call, csrf, admin, fm, gen>>

\* The effect of the page runs.
PageEffect ==
    /\ page.pc = "loaded"
    /\ LET d == PageDecision(page)
           finished == [page EXCEPT !.pc = "done"]
       IN page' =
            CASE d = "error" /\ page.opener ->
                   [finished EXCEPT !.posted = ErrorMessage(page.error.val), !.closed = TRUE]
              [] d = "error" /\ ~page.opener ->
                   [finished EXCEPT !.navigated = ErrorRedirect(page.error.val),
                                    !.via = "setLocation"]
              [] d = "code" /\ page.opener ->
                   [finished EXCEPT !.posted = CallbackMessage(page.code, page.state),
                                    !.closed = TRUE]
              [] d = "code" /\ ~page.opener ->
                   [finished EXCEPT !.navigated = ServerCallbackUrl(page.code, page.state),
                                    !.via = "href"]
              [] OTHER ->
                   [finished EXCEPT !.navigated = NoCodeRedirect, !.via = "setLocation"]
    /\ UNCHANGED <<store, storeWriter, env, inv, hist, response, cfgReq, bg, call, csrf, admin, fm, gen>>

\* ---------------------------------------------------------- outbound calls

\* The message of the error refreshAccessToken rejects with.
RefreshErrorMessage(o) ==
    CASE o.kind = "abort" ->
           <<"Token", SP, "refresh", SP, "timed", SP, "out", SP,
             "after", SP, "30", SP, "seconds">>
      [] o.kind = "enotfound" ->
           <<"Network", SP, "connectivity", SP, "issue", ":", SP, "Unable", SP, "to", SP,
             "reach", SP, "Atlassian", SP, "servers", SP, "during", SP, "token", SP,
             "refresh.">>
      [] o.kind = "http" ->
           <<"Token", SP, "refresh", SP, "failed", ":", SP,
             "Token", SP, "refresh", SP, "failed", SP,
             "(", o.status, ")", ":", SP>> \o o.text
      [] o.kind = "neterr" ->
           <<"Token", SP, "refresh", SP, "failed", ":", SP>> \o o.text
      [] OTHER -> o.text

\* The message of the error getUserInfo rejects with.
UserInfoErrorMessage(o) ==
    CASE o.kind = "abort" ->
           <<"Request", SP, "to", SP, "get", SP, "user", SP, "info", SP,
             "timed", SP, "out", SP, "after", SP, "30", SP, "seconds">>
      [] o.kind = "enotfound" ->
           <<"Network", SP, "connectivity", SP, "issue", ":", SP, "Unable", SP, "to", SP,
             "reach", SP, "Atlassian", SP, "API", SP, "for", SP, "user", SP, "info.">>
      [] o.kind = "http" ->
           <<"Failed", SP, "to", SP, "get", SP, "user", SP, "info", ":", SP,
             "Failed", SP, "to", SP, "get", SP, "user", SP, "info", SP,
             "(", o.status, ")", ":", SP>> \o o.text
      [] o.kind = "neterr" ->
           <<"Failed", SP, "to", SP, "get", SP, "user", SP, "info", ":", SP>> \o o.text
      [] OTHER -> o.text

\* The message of the error JiraService.makeRequest rejects with: the HTTP
\* error is thrown as it is, any other failure is the one fetch or the body
\* parser raised.
RequestErrorMessage(o) ==
    CASE o.kind = "http" ->
           <<"Jira", SP, "API", SP, "error", SP, "(", o.status, ")", ":", SP>> \o o.text
      [] o.kind = "enotfound" -> <<"getaddrinfo", SP, "ENOTFOUND">>
      [] OTHER -> o.text

\* The calls that arm a 30 s AbortController timer; makeRequest arms none.
TimedCallsExchangeOnly == {"exchangeCodeForTokens"}

TimedCalls ==
    {"exchangeCodeForTokens", "refreshAccessToken", "getAccessibleResources", "getUserInfo"}

OutboundCalls ==
    {"exchangeCodeForTokens", "refreshAccessToken", "getAccessibleResources", "getUserInfo",
     "makeRequest"}

CallErrorMessageStatusOnly(fn, o) == <<fn, SP, "failed", SP, "(", o.status, ")">>

CallErrorMessage(fn, o) ==
    CASE fn = "exchangeCodeForTokens" -> ExchangeErrorMessage(o)
      [] fn = "refreshAccessToken" -> RefreshErrorMessage(o)
      [] fn = "getAccessibleResources" -> ResourcesErrorMessage(o)
      [] fn = "getUserInfo" -> UserInfoErrorMessage(o)
      [] OTHER -> RequestErrorMessage(o)

\* What the remote side can answer a call with: a 2xx with the call's JSON,
\* a 2xx that does not parse, a non-2xx with a text body, or no answer that
\* reaches fetch (DNS failure, another network failure).
HttpStatuses == {"400", "401", "503"}

HttpBodies ==
    { <<>>, <<"invalid_grant">>, <<"error", "=", "busy", "&", "retry", "=", "1">> }

CallOutcomes(fn) ==
    { Outcome("http", st, b, NoTokens, <<>>) : st \in HttpStatuses, b \in HttpBodies }
      \cup { o \in FetchFailures : o.kind \in {"enotfound", "neterr", "badjson"} }
      \cup (CASE fn \in {"exchangeCodeForTokens", "refreshAccessToken"} ->
                   { o \in ExchangeOutcomesOf(1) : o.kind = "ok" }
              [] fn = "getAccessibleResources" ->
                   { o \in DiscoveryOutcomes : o.kind = "ok" }
              [] OTHER -> { Outcome("ok", "200", <<>>, NoTokens, <<>>) })

CallRejected(fn, o) ==
    [call EXCEPT !.pc = "settled", !.net = o, !.settled = "rejected",
                 !.message = CallErrorMessage(fn, o)]

\* The call starts: the timer is armed (where there is one) and fetch is
\* awaited.  The remote side either answers at some time or never does.
CallIssue(fn, remote) ==
    /\ call.pc = "idle"
    /\ call' = [NoCall EXCEPT !.pc = "flight", !.fn = fn, !.remote = remote]
    /\ UNCHANGED <<store, storeWriter, env, inv, hist, response, cfgReq, bg, page, csrf, admin, fm, gen>>

\* fetch settles: it rejects on a network failure, or resolves with the
\* response head, after which the timer is cleared and the body is read.
CallFetchSettle(o) ==
    /\ call.pc = "flight"
    /\ call.remote = "responsive"
    /\ o \in CallOutcomes(call.fn)
    /\ call' = IF o.kind \in {"enotfound", "neterr"}
               THEN CallRejected(call.fn, o)
               ELSE [call EXCEPT !.pc = "body", !.net = o]
    /\ UNCHANGED <<store, storeWriter, env, inv, hist, response, cfgReq, bg, page, csrf, admin, fm, gen>>

\* The body is read: response.text() of a non-2xx goes into the thrown error,
\* response.json() of a 2xx is the value the call resolves with.
CallBodyRead ==
    /\ call.pc = "body"
    /\ call' = IF call.net.kind = "ok"
               THEN [call EXCEPT !.pc = "settled", !.settled = "resolved",
                                 !.data = [tokens |-> call.net.tokens,
                                           resources |-> call.net.resources]]
               ELSE CallRejected(call.fn, call.net)
    /\ UNCHANGED <<store, storeWriter, env, inv, hist, response, cfgReq, bg, page, csrf, admin, fm, gen>>

\* The 30 s timer fires while fetch is pending: controller.abort() rejects
\* fetch with an AbortError.
CallTimerFire ==
    /\ call.pc = "flight"
    /\ call.fn \in TimedCalls
    /\ call' = CallRejected(call.fn, Outcome("abort", None, <<>>, NoTokens, <<>>))
    /\ UNCHANGED <<store, storeWriter, env, inv, hist, response, cfgReq, bg, page, csrf, admin, fm, gen>>

\* ------------------------------------------------------ GET /api/oauth/config

ConfigBodyByValue(clientId, clientSecret) ==
    [configured |-> Truthy(clientId) /\ clientSecret = "xyz",
     hasClientId |-> Truthy(clientId),
     hasClientSecret |-> Truthy(clientSecret)]

\* The body of the response, from the two settings read.
ConfigBody(clientId, clientSecret) ==
    [configured |-> Truthy(clientId) /\ Truthy(clientSecret),
     hasClientId |-> Truthy(clientId),
     hasClientSecret |-> Truthy(clientSecret)]

\* await storage.getAppSetting("JIRA_OAUTH_CLIENT_ID")
ConfigGetReadClientId ==
    /\ bg.pc = "idle"
    /\ bg' = BgRead("config", store[K_CLIENT_ID])
    /\ UNCHANGED <<store, storeWriter, env, inv, hist, response, cfgReq, page, call, csrf, admin, fm, gen>>

\* await storage.getAppSetting("JIRA_OAUTH_CLIENT_SECRET"), then the response.
ConfigGetRespond ==
    /\ bg.pc = "read"
    /\ bg.op = "config"
    /\ bg' = BgDone([BgResponse(200) EXCEPT
                       !.config = ConfigBody(bg.cfgId, store[K_CLIENT_SECRET])])
    /\ UNCHANGED <<store, storeWriter, env, inv, hist, response, cfgReq, page, call, csrf, admin, fm, gen>>

\* ------------------------------------------------ GET /api/jira/oauth/auth-url

FormEncodeTokenRaw(t) == t

\* URLSearchParams serialisation (application/x-www-form-urlencoded), token
\* by token: a space becomes "+", each other reserved character its percent
\* escape.
FormEncodeToken(t) ==
    CASE t = " " -> "+"
      [] t = "+" -> "%2B"
      [] OTHER -> EncodeToken(t)

RECURSIVE FormEncode(_)
FormEncode(s) ==
    IF s = <<>> THEN <<>>
    ELSE <<FormEncodeToken(Head(s))>> \o FormEncode(Tail(s))

\* URLSearchParams parsing of one token: "+" is a space, an escape its
\* character.
FormDecodeToken(t) ==
    CASE t = "+" -> " "
      [] t = "%2B" -> "+"
      [] OTHER -> DecodeToken(t)

RECURSIVE FormDecode(_)
FormDecode(s) ==
    IF s = <<>> THEN <<>>
    ELSE <<FormDecodeToken(Head(s))>> \o FormDecode(Tail(s))

\* params.toString(): name=value pairs joined by "&".
RECURSIVE FormSerialize(_)
FormSerialize(pairs) ==
    IF pairs = <<>> THEN <<>>
    ELSE FormEncode(<<Head(pairs)[1]>>) \o <<"=">> \o FormEncode(Head(pairs)[2])
           \o (IF Len(pairs) > 1 THEN <<"&">> ELSE <<>>) \o FormSerialize(Tail(pairs))

\* new URL(url).searchParams.get(name) on a query string: the decoded value
\* of the first pair of that name, <<None>> when there is none.
RECURSIVE SearchParamsGet(_, _)
SearchParamsGet(query, name) ==
    IF query = <<>> THEN <<None>>
    ELSE LET pair == UpToDelimiter(query)
             rest == IF Len(pair) < Len(query)
                     THEN SubSeq(query, Len(pair) + 2, Len(query))
                     ELSE <<>>
         IN IF Len(pair) >= 2 /\ FormDecodeToken(pair[1]) = name /\ pair[2] = "="
            THEN FormDecode(SubSeq(pair, 3, Len(pair)))
            ELSE SearchParamsGet(rest, name)

\* The query string of a URL: what follows its "?".
RECURSIVE QueryOf(_)
QueryOf(url) ==
    IF url = <<>> THEN <<>>
    ELSE IF Head(url) = "?" THEN Tail(url) ELSE QueryOf(Tail(url))

AuthScope ==
    <<"read", ":", "jira-work", SP, "write", ":", "jira-work", SP,
      "manage", ":", "jira-project", SP, "read", ":", "me", SP, "offline_access">>

\* generateAuthUrl(state): the authorize URL with its form-encoded query.
GenerateAuthUrl(svc, state) ==
    <<"https://auth.atlassian.com", "/authorize", "?">>
      \o FormSerialize(<< <<"audience", <<"api.atlassian.com">>>>,
                          <<"client_id", <<svc.clientId>>>>,
                          <<"scope", AuthScope>>,
                          <<"redirect_uri", svc.redirectUri>>,
                          <<"state", state>>,
                          <<"response_type", <<"code">>>>,
                          <<"prompt", <<"consent">>>> >>)

\* createJiraOAuthService(): await storage.getAppSetting("JIRA_OAUTH_CLIENT_ID")
AuthUrlReadClientId ==
    /\ bg.pc = "idle"
    /\ bg' = BgRead("authurl", store[K_CLIENT_ID])
    /\ UNCHANGED <<store, storeWriter, env, inv, hist, response, cfgReq, page, call, csrf, admin, fm, gen>>

\* await storage.getAppSetting("JIRA_OAUTH_CLIENT_SECRET"); the service is
\* built (or null returned) and the handler answers 400 or the URL.
AuthUrlRespond(state) ==
    /\ bg.pc = "read"
    /\ bg.op = "authurl"
    /\ LET id == bg.cfgId
           secret == store[K_CLIENT_SECRET]
       IN IF ConfigPresent(id, secret)
          THEN /\ bg' = BgDone([BgResponse(200) EXCEPT
                                  !.authUrl = GenerateAuthUrl(OAuthConfigOf(id, secret), state),
                                  !.state = state])
               /\ csrf' = [csrf EXCEPT !.issued = @ \cup {state}]
          ELSE /\ bg' = BgDone(BgResponse(400))
               /\ UNCHANGED csrf
    /\ UNCHANGED <<store, storeWriter, env, inv, hist, response, cfgReq, page, call, admin, fm, gen>>

\* ------------------------------------------------------- admin setup page

ADMIN_PASSWORD == "Dennisd-401"

\* const callbackUrl = `${window.location.origin}/oauth/callback`
AdminCallbackUrl(origin) == origin \o <<"/", "oauth", "/", "callback">>

\* The page is opened at an origin: the password gate is shown.
AdminOpen(origin) ==
    /\ admin.pc = "closed"
    /\ admin' = [NoAdmin EXCEPT !.pc = "gate", !.origin = origin,
                                !.callbackUrl = AdminCallbackUrl(origin)]
    /\ UNCHANGED <<store, storeWriter, env, inv, hist, response, cfgReq, bg, page, call, csrf, fm, gen>>

\* handlePasswordSubmit: the right password opens the form.
AdminPasswordSubmit(password) ==
    /\ admin.pc = "gate"
    /\ admin' = IF password = ADMIN_PASSWORD
                THEN [admin EXCEPT !.pc = "form", !.isAuthenticated = TRUE]
                ELSE admin
    /\ UNCHANGED <<store, storeWriter, env, inv, hist, response, cfgReq, bg, page, call, csrf, fm, gen>>

\* onSubmit of the form: the mutation resolves with success without sending
\* a request.
AdminSave ==
    /\ admin.pc = "form"
    /\ admin' = [admin EXCEPT !.saved = TRUE]
    /\ UNCHANGED <<store, storeWriter, env, inv, hist, response, cfgReq, bg, page, call, csrf, fm, gen>>

\* ------------------------------------------- JiraOAuthService.generateAuthUrl

\* generateAuthUrl(state) is applied on a service with this config.
GenApply(config, state) ==
    /\ gen.pc = "idle"
    /\ gen' = [NoGen EXCEPT !.pc = "applied", !.config = config, !.state = state,
                             !.url = GenerateAuthUrl(config, state)]
    /\ UNCHANGED <<store, storeWriter, env, inv, hist, response, cfgReq, bg, page, call, csrf, admin, fm>>

\* The identity provider reads the state parameter back from the URL.
GenParse ==
    /\ gen.pc = "applied"
    /\ gen' = [gen EXCEPT !.pc = "parsed",
                           !.parsed = SearchParamsGet(QueryOf(gen.url), "state")]
    /\ UNCHANGED <<store, storeWriter, env, inv, hist, response, cfgReq, bg, page, call, csrf, admin, fm>>

\* ------------------------------------------------------- FileMakerService

FmTokens == {"FT1", "FT2"}

FmEndpoints == {"/layouts/clients/records", "/layouts/clients/records/7"}

\* What a fetch of the FileMaker Data API settles with: an HTTP status and
\* a body text, or a rejection (status None).
FmStatuses == {"200", "401", "500"}

FmOk(status) == status = "200"

FmAuthError(status, text) ==
    <<"FileMaker authentication error (", status, "): ", text>>

FmApiError(status, text) == <<"FileMaker API error (", status, "): ", text>>

FmFetchFailed == <<"fetch failed">>

FmData == <<"data">>

\* After a 401 answer makeRequest clears the token and calls itself again.
FmAfter401(f) == [f EXCEPT !.pc = "authenticate", !.token = None]

\* makeRequest(endpoint) is called on the service; no other request is
\* under way.
FmMakeRequest(endpoint) ==
    /\ fm.pc \in {"idle", "settled"}
    /\ fm' = [fm EXCEPT !.pc = "authenticate", !.endpoint = endpoint, !.bearer = None,
                        !.sessions = 0, !.attempts = 0, !.settled = <<>>]
    /\ UNCHANGED <<store, storeWriter, env, inv, hist, response, cfgReq, bg, page, call,
                   csrf, admin, gen>>

\* authenticate(): the cached token, or a POST to /sessions.
FmAuthenticate ==
    /\ fm.pc = "authenticate"
    /\ fm' = IF fm.token # None
             THEN [fm EXCEPT !.pc = "fetch", !.bearer = fm.token]
             ELSE [fm EXCEPT !.pc = "session_fetch", !.sessions = @ + 1]
    /\ UNCHANGED <<store, storeWriter, env, inv, hist, response, cfgReq, bg, page, call,
                   csrf, admin, gen>>

\* The POST /sessions settles.
FmSessionSettle(status, text, token) ==
    /\ fm.pc = "session_fetch"
    /\ fm' = IF status = None
             THEN [fm EXCEPT !.pc = "settled", !.settled = FmFetchFailed]
             ELSE IF ~FmOk(status)
             THEN [fm EXCEPT !.pc = "settled", !.settled = FmAuthError(status, text)]
             ELSE [fm EXCEPT !.pc = "fetch", !.token = token, !.bearer = token]
    /\ UNCHANGED <<store, storeWriter, env, inv, hist, response, cfgReq, bg, page, call,
                   csrf, admin, gen>>

\* fetch(url) with the bearer token.
FmFetch ==
    /\ fm.pc = "fetch"
    /\ fm.attempts < MaxFmAttempts
    /\ fm' = [fm EXCEPT !.pc = "data_fetch", !.attempts = @ + 1]
    /\ UNCHANGED <<store, storeWriter, env, inv, hist, response, cfgReq, bg, page, call,
                   csrf, admin, gen>>

\* The fetch of the endpoint settles.
FmDataSettle(status, text) ==
    /\ fm.pc = "data_fetch"
    /\ fm' = IF status = None
             THEN [fm EXCEPT !.pc = "settled", !.settled = FmFetchFailed]
             ELSE IF status = "401" THEN FmAfter401(fm)
             ELSE IF ~FmOk(status)
             THEN [fm EXCEPT !.pc = "settled", !.settled = FmApiError(status, text)]
             ELSE [fm EXCEPT !.pc = "settled", !.settled = FmData]
    /\ UNCHANGED <<store, storeWriter, env, inv, hist, response, cfgReq, bg, page, call,
                   csrf, admin, gen>>

\* ------------------------------------------------------------ specifications

\* One step of callback invocation i, the token endpoint answering from X
\* and the accessible-resources endpoint from D.
CallbackStep(i, X, D) ==
    \/ \E code \in Codes, error \in ErrorParams : GetArrive(i, code, NoState, error)
    \/ \E code \in Codes : PostArrive(i, code, NoState)
    \/ GetBegin(i)
    \/ PostBegin(i)
    \/ ReadClientId(i)
    \/ ReadClientSecret(i)
    \/ StoreThrow(i)
    \/ \E o \in X : ExchangeRespond(i, o)
    \/ ExchangeResume(i)
    \/ \E o \in D : DiscoveryRespond(i, o)
    \/ GetDiscoveryResume(i)
    \/ PostDiscoveryResume(i)
    \/ CallbackStoreSet(i)
    \/ GetFinish(i)
    \/ PostTestConnection(i)

\* What the handler of invocation i does once its request has arrived.
CallbackProgress(i) ==
    \/ GetBegin(i)
    \/ PostBegin(i)
    \/ ReadClientId(i)
    \/ ReadClientSecret(i)
    \/ StoreThrow(i)
    \/ \E o \in ExchangeOutcomesOf(i) : ExchangeRespond(i, o)
    \/ ExchangeResume(i)
    \/ \E o \in DiscoveryOutcomes : DiscoveryRespond(i, o)
    \/ GetDiscoveryResume(i)
    \/ PostDiscoveryResume(i)
    \/ CallbackStoreSet(i)
    \/ GetFinish(i)
    \/ PostTestConnection(i)

\* The configurations the admin enters.
ConfigStep ==
    \/ \E id \in ClientIds, secret \in ClientSecrets : ConfigBegin(id, secret)
    \/ ConfigSetClientId
    \/ ConfigSetClientSecret

\* The provider answers of the sequential scenarios: a grant with and one
\* without a refresh token, an HTTP error and a timeout; no site, one site,
\* two sites, an HTTP error.
SeqExchangeOutcomes ==
    { o \in ExchangeOutcomesOf(1) : o.kind \in {"ok", "abort"} \/ o.status = "400" }

SeqDiscoveryOutcomes ==
    { o \in DiscoveryOutcomes :
        \/ o.kind = "ok" /\ \A n \in 1..Len(o.resources) : o.resources[n].id = "site-1"
        \/ o.status = "400" }

BasicInputs == {"", "acme"}

\* The other requests of the client, one at a time.
BackgroundStep ==
    \/ \E d \in BasicInputs, u \in BasicInputs, t \in BasicInputs : CredentialsPost(d, u, t)
    \/ \E ok \in BOOLEAN : CredentialsReturn(ok)
    \/ TrackerCall
    \/ \E ok \in BOOLEAN : TrackerReturn(ok)
    \/ StatusReadClientId
    \/ StatusRespond
    \/ RefreshCall
    \/ \E o \in SeqExchangeOutcomes : RefreshReturn(o)

Next ==
    \/ \E i \in Invocations : CallbackStep(i, ExchangeOutcomesOf(i), DiscoveryOutcomes)
    \/ ConfigStep

\* Concurrent callback invocations and the admin's configuration requests.
Spec == Init /\ [][Next]_vars

NextFair ==
    \/ CallbackStep(1, ExchangeOutcomesOf(1), DiscoveryOutcomes)
    \/ NextRequest(1)
    \/ ConfigStep

\* One callback request after another among the admin's configuration
\* requests, the event loop running every handler that can resume and every
\* provider or store call settling (a result, a failure, or the 30 s abort).
FairSpec == Init /\ [][NextFair]_vars /\ WF_vars(CallbackProgress(1))

NextOps ==
    \/ CallbackStep(1, SeqExchangeOutcomes, SeqDiscoveryOutcomes)
    \/ NextRequest(1)
    \/ ConfigStep
    \/ BackgroundStep

\* One callback request after another, among the other requests of the
\* client: credentials, tracker calls, status, token refresh.
SpecOps == Init /\ [][NextOps]_vars


NextPage ==
    \/ \E code \in Codes, state \in PageStates, error \in ErrorParams, opener \in BOOLEAN :
         PageLoad(code, state, error, opener)
    \/ PageEffect

\* One load of the client callback page, over its queries and openers.
SpecPage == Init /\ [][NextPage]_vars

\* The environments a process can be started with: any mode, each field of
\* either mode set or not.
SignerEnvs ==
    { (E_AUTH_TYPE :> m) @@ (K_ACCESS :> a) @@ (K_REFRESH :> None) @@ (K_SITE_ID :> s)
        @@ (E_DOMAIN :> d) @@ (E_USERNAME :> u) @@ (E_API_TOKEN :> t)
        @@ [k \in DeploymentKeys |-> None] :
        m \in {None, "basic", "oauth"}, a \in {None, "", "AT1"}, s \in {None, "site-1"},
        d \in {None, "acme"}, u \in {None, "ann"}, t \in {None, "tok"} }

InitSigner ==
    /\ store = [k \in StoreKeys |-> None]
    /\ storeWriter = [k \in StoreKeys |-> "none"]
    /\ env \in SignerEnvs
    /\ inv = [i \in Invocations |-> Idle]
    /\ hist = [i \in Invocations |-> NoHist]
    /\ response = [i \in Invocations |-> NoResponse]
    /\ cfgReq = NoCfgReq
    /\ bg = NoBg
    /\ page = NoPage
    /\ call = NoCall
    /\ csrf = NoCsrf
    /\ admin = NoAdmin
    /\ fm = NoFm
    /\ gen = NoGen

NextSigner ==
    \/ TrackerCall
    \/ \E ok \in BOOLEAN : TrackerReturn(ok)

\* Tracker routes in a process started with any environment.
SpecSigner == InitSigner /\ [][NextSigner]_vars

NextCalls ==
    \/ \E fn \in OutboundCalls, remote \in {"responsive", "silent"} : CallIssue(fn, remote)
    \/ \E o \in UNION { CallOutcomes(fn) : fn \in OutboundCalls } : CallFetchSettle(o)
    \/ CallBodyRead
    \/ CallTimerFire

\* One outbound call from start to settlement; the event loop runs a timer
\* that is due.
SpecCalls == Init /\ [][NextCalls]_vars /\ WF_vars(CallTimerFire)

\* What Math.random().toString(36).substring(2, 15) gives: a run of digits
\* and lower-case letters.
RandomStates == { <<"st1">>, <<"st2">> }

\* The configurations of two admins.
ConfigIds == {"", "abc", "abd"}

ConfigSecrets == {"", "xyz", "xyw"}

NextConfig ==
    \/ \E id \in ConfigIds, secret \in ConfigSecrets : ConfigBegin(id, secret)
    \/ ConfigSetClientId
    \/ ConfigSetClientSecret
    \/ ConfigGetReadClientId
    \/ ConfigGetRespond
    \/ AuthUrlReadClientId
    \/ AuthUrlRespond(<<"st1">>)
    \/ GetArrive(1, "CODE123", NoState, NoError)
    \/ PostArrive(1, "CODE123", NoState)
    \/ GetBegin(1)
    \/ PostBegin(1)
    \/ ReadClientId(1)
    \/ ReadClientSecret(1)
    \/ \E o \in { x \in FetchFailures : x.kind = "abort" } : ExchangeRespond(1, o)
    \/ ExchangeResume(1)
    \/ NextRequest(1)

\* The admin's configuration requests among the requests that read the
\* configuration: GET /api/oauth/config, auth-url, and callbacks whose
\* exchange times out.
SpecConfig == Init /\ [][NextConfig]_vars

\* State values of any text: plain, empty, with separators of a query
\* string, with spaces, plus signs and percent signs.
AnyStates ==
    { <<"st1">>, <<>>, <<"a", "&", "b">>, <<"a", "=", "b">>, <<"x", SP, "y">>,
      <<"x", "+", "y">>, <<"50", "%", "3D">>, <<"a", "/", "b", "?", "c">>,
      <<"&", "state", "=", "evil">> }

\* The configs of a service: either client, any deployment.
GenConfigs ==
    { [clientId |-> id, clientSecret |-> "xyz", redirectUri |-> RedirectUri(e)] :
        id \in {"abc", "abd"},
        e \in { [k \in EnvKeys |-> IF k \in D THEN "v" ELSE None] :
                  D \in { {}, {E_CUSTOM_DOMAIN}, {E_REPL_ID, E_REPL_OWNER, E_REPL_SLUG} } } }

NextAuthUrl ==
    \/ \E config \in GenConfigs, state \in AnyStates : GenApply(config, state)
    \/ GenParse
    \/ \E id \in ClientIds, secret \in ClientSecrets : ConfigBegin(id, secret)
    \/ ConfigSetClientId
    \/ ConfigSetClientSecret
    \/ AuthUrlReadClientId
    \/ \E state \in RandomStates : AuthUrlRespond(state)

\* generateAuthUrl applied to any config and state, and the auth-url route.
SpecAuthUrl == Init /\ [][NextAuthUrl]_vars

\* The deployments of the server: a custom domain, Replit, local development.
Deployments ==
    { [k \in DeploymentKeys |-> IF k \in D THEN "app.example.com" ELSE None] :
        D \in { {}, {E_CUSTOM_DOMAIN}, {E_REPL_ID, E_REPL_OWNER, E_REPL_SLUG} } }

\* The origins the admin opens the page at: those of the deployments, and a
\* Replit development domain.
Origins ==
    { DeploymentBaseUrl(d) : d \in Deployments }
      \cup { <<"https", ":", "/", "/", "dev-1.replit.dev">> }

InitAdmin ==
    /\ store = [k \in StoreKeys |-> None]
    /\ storeWriter = [k \in StoreKeys |-> "none"]
    /\ \E d \in Deployments :
         env = [k \in EnvKeys |-> IF k \in DeploymentKeys THEN d[k] ELSE None]
    /\ inv = [i \in Invocations |-> Idle]
    /\ hist = [i \in Invocations |-> NoHist]
    /\ response = [i \in Invocations |-> NoResponse]
    /\ cfgReq = NoCfgReq
    /\ bg = NoBg
    /\ page = NoPage
    /\ call = NoCall
    /\ csrf = NoCsrf
    /\ admin = NoAdmin
    /\ fm = NoFm
    /\ gen = NoGen

NextAdmin ==
    \/ \E origin \in Origins : AdminOpen(origin)
    \/ \E password \in {ADMIN_PASSWORD, "guess"} : AdminPasswordSubmit(password)
    \/ AdminSave
    \/ \E id \in ClientIds, secret \in ClientSecrets : ConfigBegin(id, secret)
    \/ ConfigSetClientId
    \/ ConfigSetClientSecret
    \/ AuthUrlReadClientId
    \/ AuthUrlRespond(<<"st1">>)
    \/ GetArrive(1, "CODE123", NoState, NoError)
    \/ GetBegin(1)
    \/ ReadClientId(1)
    \/ ReadClientSecret(1)
    \/ \E o \in { x \in FetchFailures : x.kind = "abort" } : ExchangeRespond(1, o)
    \/ ExchangeResume(1)
    \/ NextRequest(1)

\* The admin setup page and the requests that write and read the OAuth
\* configuration, on any deployment.
SpecAdmin == InitAdmin /\ [][NextAdmin]_vars

NextCsrf ==
    \/ \E id \in ClientIds, secret \in ClientSecrets : ConfigBegin(id, secret)
    \/ ConfigSetClientId
    \/ ConfigSetClientSecret
    \/ AuthUrlReadClientId
    \/ \E state \in RandomStates : AuthUrlRespond(state)
    \/ \E state \in RandomStates \cup {NoState} : GetArrive(1, "CODE123", state, NoError)
    \/ \E state \in RandomStates \cup {NoState} : PostArrive(1, "CODE123", state)
    \/ GetBegin(1)
    \/ PostBegin(1)
    \/ ReadClientId(1)
    \/ ReadClientSecret(1)
    \/ \E o \in { x \in FetchFailures : x.kind = "abort" } : ExchangeRespond(1, o)
    \/ ExchangeResume(1)
    \/ NextRequest(1)

\* auth-url requests that hand out state values, and callbacks that arrive
\* with one of them or with none.
SpecCsrf == Init /\ [][NextCsrf]_vars

FmTexts == {"", "denied"}

NextFm ==
    \/ \E endpoint \in FmEndpoints : FmMakeRequest(endpoint)
    \/ FmAuthenticate
    \/ \E status \in FmStatuses \cup {None}, text \in FmTexts, token \in FmTokens :
         FmSessionSettle(status, text, token)
    \/ FmFetch
    \/ \E status \in FmStatuses \cup {None}, text \in FmTexts : FmDataSettle(status, text)

\* Requests made one after another on one FileMakerService, against a
\* server that may answer each fetch with any status.
SpecFm == Init /\ [][NextFm]_vars

\* ------------------------------------------------------------------ claims

\* A response that reports a completed callback.
IsSuccess(r) == r.url = SuccessRedirect \/ (r.type = "json" /\ r.body.success)

\* This step is GET /oauth-callback of invocation i issuing the success redirect.
SuccessIssued(i) ==
    /\ inv[i].kind = "GET"
    /\ inv[i].pc # "done"
    /\ inv'[i].pc = "done"
    /\ response'[i].url = SuccessRedirect

\* This step of invocation i makes no provider call and writes nothing.
NothingDone(i) ==
    /\ hist'[i].exchange = 0
    /\ hist'[i].discovery = 0
    /\ hist'[i].sets = 0
    /\ hist'[i].envWrites = 0
    /\ store' = store
    /\ env' = env

\* This step is a Credential Store call of invocation i rejecting.
StoreRejected(i) == \E m \in StoreErrors : response'[i] = GetCatch(m)

Http503 == Outcome("http", "503", <<"error", "=", "busy", "&", "retry", "=", "1">>, NoTokens, <<>>)

\* C1: every invocation of GET /oauth-callback, whatever its query and
\* whatever the config lookup, the exchange, the discovery and the store
\* writes return or throw, ends having issued exactly one redirect to the
\* settings page: never a second response, and eventually the one.
C1_ExactlyOneRedirect ==
    /\ [](\A i \in Invocations :
            inv[i].kind = "GET" =>
              /\ hist[i].responses <= 1
              /\ (inv[i].pc = "done") = (hist[i].responses = 1)
              /\ (inv[i].pc = "done") = (response[i].type = "redirect")
              /\ (inv[i].pc # "done") = (response[i] = NoResponse))
    /\ \A i \in Invocations :
         (inv[i].kind = "GET") ~>
           (/\ inv[i].pc = "done"
            /\ hist[i].responses = 1
            /\ response[i].type = "redirect"
            /\ response[i].url[1] = "/settings")

C1_Witness ==
    \E i \in Invocations :
      /\ inv[i].kind = "GET"
      /\ inv[i].pc = "done"
      /\ hist[i].sets > 0
      /\ response[i] = GetCatch(<<>>)

\* C2 as stated: at the success redirect of GET /oauth-callback the access
\* token and the site's id, url and name have been written, AuthMode is
\* oauth, and the store holds the exchanged access token under
\* JIRA_OAUTH_ACCESS_TOKEN and the selected site's id under JIRA_SITE_ID.
C2_StoreHoldsOwnValues ==
    [][\A i \in Invocations :
         SuccessIssued(i) =>
           /\ hist[i].wrote[K_ACCESS] = inv[i].tokens.access_token
           /\ hist[i].wrote[K_SITE_ID] = inv[i].site.id
           /\ hist[i].wrote[K_SITE_URL] = inv[i].site.url
           /\ hist[i].wrote[K_SITE_NAME] = inv[i].site.name
           /\ env'[E_AUTH_TYPE] = "oauth"
           /\ store'[K_ACCESS] = inv[i].tokens.access_token
           /\ store'[K_SITE_ID] = inv[i].site.id]_vars

\* C2 amended: at the success redirect the invocation has written the
\* exchanged access token and the selected site's id, url and name, and
\* AuthMode is oauth; the store holds the access token and the site id of
\* this invocation under each key that no other invocation has set since.
C2_WrittenBeforeSuccess ==
    [][\A i \in Invocations :
         SuccessIssued(i) =>
           /\ hist[i].wrote[K_ACCESS] = inv[i].tokens.access_token
           /\ hist[i].wrote[K_SITE_ID] = inv[i].site.id
           /\ hist[i].wrote[K_SITE_URL] = inv[i].site.url
           /\ hist[i].wrote[K_SITE_NAME] = inv[i].site.name
           /\ hist[i].sets >= 4
           /\ env'[E_AUTH_TYPE] = "oauth"
           /\ (storeWriter[K_ACCESS] = i => store'[K_ACCESS] = inv[i].tokens.access_token)
           /\ (storeWriter[K_SITE_ID] = i => store'[K_SITE_ID] = inv[i].site.id)]_vars

C2_Witness ==
    \E i \in Invocations :
      /\ inv[i].kind = "GET"
      /\ inv[i].pc = "done"
      /\ response[i].url = SuccessRedirect
      /\ storeWriter[K_ACCESS] = i
      /\ store[K_ACCESS] = env[K_ACCESS]
      /\ storeWriter[K_SITE_ID] = i

\* C3: when discovery lists two or more sites, GET /oauth-callback selects
\* the first and goes on to persist it; what it has written under the site
\* id, url and name keys when it succeeds is the first entry's id, url and
\* name, and AuthMode is then oauth with the first entry's id as site id.
C3_FirstSitePersisted ==
    [][\A i \in Invocations :
         /\ ( /\ inv[i].kind = "GET"
              /\ inv[i].pc = "discovery_ret"
              /\ inv'[i].pc # "discovery_ret"
              /\ inv[i].net.kind = "ok"
              /\ Len(inv[i].net.resources) >= 2 )
            => /\ inv'[i].pc = "w_access"
               /\ inv'[i].site = inv[i].net.resources[1]
         /\ (SuccessIssued(i) /\ hist[i].listed >= 2)
            => /\ hist[i].wrote[K_SITE_ID] = hist[i].first.id
               /\ hist[i].wrote[K_SITE_URL] = hist[i].first.url
               /\ hist[i].wrote[K_SITE_NAME] = hist[i].first.name
               /\ env'[E_AUTH_TYPE] = "oauth"
               /\ env'[K_SITE_ID] = hist[i].first.id]_vars

C3_Witness ==
    \E i \in Invocations :
      /\ inv[i].kind = "GET"
      /\ inv[i].pc = "done"
      /\ response[i].url = SuccessRedirect
      /\ hist[i].listed >= 2
      /\ storeWriter[K_SITE_ID] = i
      /\ store[K_SITE_ID] = "site-2"
      /\ env[E_AUTH_TYPE] = "oauth"

\* C4: when discovery succeeds with an empty list, GET /oauth-callback ends
\* at the no_jira_sites redirect having made no Credential Store set call
\* and no process.env assignment.
C4_NoSitesNoWrite ==
    \A i \in Invocations :
      (inv[i].kind = "GET" /\ inv[i].pc = "done" /\ hist[i].listed = 0)
        => /\ response[i] = Redirect(NoSitesRedirect)
           /\ hist[i].sets = 0
           /\ hist[i].envWrites = 0

C4_Witness ==
    \E i \in Invocations :
      /\ inv[i].kind = "GET"
      /\ inv[i].pc = "done"
      /\ hist[i].listed = 0
      /\ hist[i].discovery = 1
      /\ response[i].url = NoSitesRedirect

\* C5: the guards of GET /oauth-callback are checked in the order error,
\* code, config.  A non-empty error (with or without a code) ends in a
\* redirect whose error parameter reads back as that error; otherwise a
\* missing code ends in no_code; otherwise a client id or secret read as
\* missing ends in oauth_not_configured.  In all three cases no exchange or
\* discovery call has been made and nothing is written to the store or to
\* process.env.
C5_GuardOrder ==
    [][\A i \in Invocations :
         LET begins == inv[i].kind = "GET" /\ inv[i].pc = "received" /\ inv'[i].pc # "received"
             checked == /\ inv[i].kind = "GET"
                        /\ inv[i].pc = "cfg_secret"
                        /\ inv'[i].pc # "cfg_secret"
                        /\ ~StoreRejected(i)
         IN /\ (begins /\ TruthyParam(inv[i].error))
               => /\ inv'[i].pc = "done"
                  /\ response'[i].type = "redirect"
                  /\ RedirectParamName(response'[i].url) = "error"
                  /\ RedirectParamValue(response'[i].url) = inv[i].error.val
                  /\ NothingDone(i)
            /\ (begins /\ ~TruthyParam(inv[i].error) /\ ~Truthy(inv[i].code))
               => /\ inv'[i].pc = "done"
                  /\ response'[i] = Redirect(NoCodeRedirect)
                  /\ NothingDone(i)
            /\ (begins /\ ~TruthyParam(inv[i].error) /\ Truthy(inv[i].code))
               => /\ inv'[i].pc = "cfg_id"
                  /\ response'[i] = NoResponse
            /\ (checked /\ ~(Truthy(inv[i].cfgId) /\ Truthy(store[K_CLIENT_SECRET])))
               => /\ inv'[i].pc = "done"
                  /\ response'[i] = Redirect(NotConfiguredRedirect)
                  /\ NothingDone(i)]_vars

C5_Witness ==
    \E i, j \in Invocations :
      /\ inv[i].kind = "GET" /\ inv[j].kind = "GET"
      /\ inv[i].pc = "done"
      /\ response[i].url = ErrorRedirect(<<"user", SP, "denied", "&", "x", "=", "1">>)
      /\ hist[i].exchange = 0
      /\ inv[j].pc = "done"
      /\ response[j].url = NotConfiguredRedirect
      /\ hist[j].exchange = 0

\* C6: when exchangeCodeForTokens or getAccessibleResources rejects during
\* GET /oauth-callback, the handler ends in a redirect to settings whose
\* error parameter reads back as the message of that failure, with no later
\* step made (no discovery after a failed exchange) and no Credential Store
\* set call.
C6_FailureRedirects ==
    [][\A i \in Invocations :
         LET resumes(p) == /\ inv[i].kind = "GET"
                           /\ inv[i].pc = p
                           /\ inv'[i].pc # p
                           /\ inv[i].net.kind # "ok"
             shown(m) == /\ inv'[i].pc = "done"
                         /\ response'[i].type = "redirect"
                         /\ response'[i].url[1] = "/settings"
                         /\ RedirectParamName(response'[i].url) = "error"
                         /\ RedirectParamValue(response'[i].url) = m
                         /\ hist'[i].sets = 0
                         /\ hist'[i].envWrites = 0
                         /\ store' = store
                         /\ env' = env
         IN /\ resumes("exchange_ret")
               => shown(ExchangeErrorMessage(inv[i].net)) /\ hist'[i].discovery = 0
            /\ resumes("discovery_ret")
               => shown(ResourcesErrorMessage(inv[i].net))]_vars

C6_Witness ==
    \E i \in Invocations :
      /\ inv[i].kind = "GET"
      /\ inv[i].pc = "done"
      /\ hist[i].exchange = 1
      /\ hist[i].discovery = 0
      /\ response[i].url = ErrorRedirect(ExchangeErrorMessage(Http503))

\* C7: for both entry points, an invocation that ends in an error redirect
\* or an error response has made no assignment to process.env (AuthMode,
\* access token, site id).
C7_ModeOnlyOnSuccess ==
    \A i \in Invocations :
      (inv[i].pc = "done" /\ ~IsSuccess(response[i])) => hist[i].envWrites = 0

\* C8: once AuthMode is oauth, every later step leaves it oauth, and the
\* status endpoint computes and reports authType oauth.
C8_ModeNeverReverts ==
    [][env[E_AUTH_TYPE] = "oauth" =>
         /\ env'[E_AUTH_TYPE] = "oauth"
         /\ StatusBody(store'[K_CLIENT_ID], store'[K_CLIENT_SECRET], env').authType = "oauth"
         /\ (bg.op = "status" /\ bg'.pc = "idle") => bg'.resp.authType = "oauth"]_vars

C8_Witness ==
    /\ env[E_AUTH_TYPE] = "oauth"
    /\ bg.op = "credentials"
    /\ bg.pc = "flight"
    /\ bg.signer.authType = "oauth"
    /\ inv[1].pc = "done"
    /\ ~IsSuccess(response[1])

\* The positions of a callback handler that holds the result of its exchange.
AfterExchange == {"discovery", "discovery_ret", "finish", "test_conn"} \cup WritePositions

\* C9: no step of a callback whose exchange result lacks refresh_token
\* changes the stored JIRA_OAUTH_REFRESH_TOKEN, and refreshAccessToken makes
\* no Credential Store write, whatever token set it returns.
C9_RefreshTokenKept ==
    [][/\ \A i \in Invocations :
            ( /\ inv[i].pc \in AfterExchange
              /\ ~Truthy(inv[i].tokens.refresh_token)
              /\ inv'[i] # inv[i] )
            => store'[K_REFRESH] = store[K_REFRESH]
       /\ (bg' # bg /\ (bg.op = "refresh" \/ bg'.op = "refresh"))
            => (store' = store /\ storeWriter' = storeWriter)]_vars

C9_Witness ==
    \E i \in Invocations :
      /\ inv[i].kind = "GET"
      /\ inv[i].pc = "finish"
      /\ inv[i].tokens.refresh_token = None
      /\ store[K_REFRESH] = "RT1"
      /\ bg.op = "none"
      /\ bg.resp.status = 200
      /\ bg.resp.tokens.access_token = "AT1"
      /\ bg.resp.tokens.refresh_token = None

\* C10: at the success redirect of GET /oauth-callback, the access token,
\* refresh token and site id in process.env equal the values under the
\* same keys of the Credential Store.
C10_SessionMirrorsStore ==
    [][\A i \in Invocations :
         SuccessIssued(i) =>
           /\ env'[K_ACCESS] = store'[K_ACCESS]
           /\ env'[K_REFRESH] = store'[K_REFRESH]
           /\ env'[K_SITE_ID] = store'[K_SITE_ID]]_vars

\* C11: the two entry points end in the same state.  GET /oauth-callback
\* has made its Credential Store writes whenever it reports success (C2), so
\* a callback invocation of either entry point that reports success has
\* written the access token and the site's id, url and name to the store.
C11_BothEntryPointsPersist ==
    \A i \in Invocations :
      (inv[i].pc = "done" /\ IsSuccess(response[i])) => hist[i].sets >= 4

\* C12: one load of the callback page has exactly one outcome.  With a
\* window opener the page posts the error, or else the code and state, to
\* the opener and closes itself, navigating nowhere; without an opener it
\* posts nothing and navigates to settings with the error, or else to the
\* server callback with the code and state, or else to settings with no_code.
C12_PageOutcome ==
    page.pc = "done" =>
      LET forwarded == page.posted # NoMessage /\ page.closed
          navigated == page.navigated # <<>>
      IN /\ forwarded # navigated
         /\ page.opener =>
              /\ forwarded
              /\ page.posted = IF TruthyParam(page.error)
                               THEN ErrorMessage(page.error.val)
                               ELSE CallbackMessage(page.code, page.state)
         /\ ~page.opener =>
              /\ page.posted = NoMessage
              /\ ~page.closed
              /\ page.navigated =
                   IF TruthyParam(page.error) THEN ErrorRedirect(page.error.val)
                   ELSE IF Truthy(page.code) THEN ServerCallbackUrl(page.code, page.state)
                   ELSE NoCodeRedirect

\* C13: building a JiraService whose selected mode (oauth when JIRA_AUTH_TYPE
\* is oauth, basic otherwise) lacks one of its fields throws, no request is
\* issued and the route answers 500, also when the fields of the other mode
\* are all set; with the selected mode complete the service is of that mode.
C13_NoFallback ==
    [][(bg.pc = "idle" /\ bg' # bg) =>
         LET oauth == env[E_AUTH_TYPE] = "oauth"
             oauthSet == Truthy(env[K_ACCESS]) /\ Truthy(env[K_SITE_ID])
             basicSet == /\ Truthy(env[E_DOMAIN])
                         /\ Truthy(env[E_USERNAME])
                         /\ Truthy(env[E_API_TOKEN])
             failed == bg'.pc = "idle" /\ bg'.resp.status = 500 /\ bg'.signer = NoSigner
         IN /\ (oauth /\ ~oauthSet) => failed
            /\ (~oauth /\ ~basicSet) => failed
            /\ (oauth /\ oauthSet) => (bg'.pc = "flight" /\ bg'.signer.authType = "oauth")
            /\ (~oauth /\ basicSet) => (bg'.pc = "flight" /\ bg'.signer.authType = "basic")]_vars

C13_Witness ==
    /\ env[E_AUTH_TYPE] = "oauth"
    /\ ~Truthy(env[K_ACCESS])
    /\ Truthy(env[K_SITE_ID])
    /\ Truthy(env[E_DOMAIN]) /\ Truthy(env[E_USERNAME]) /\ Truthy(env[E_API_TOKEN])
    /\ bg.pc = "idle"
    /\ bg.resp.status = 500

\* C14: a JiraService in oauth mode has the base URL
\* https://api.atlassian.com/ex/jira/{siteId}/rest/api/3 and sends
\* Bearer {accessToken}; one in basic mode has the base URL
\* https://{domain}.atlassian.net/rest/api/3 and sends Basic with
\* username:apiToken; the scheme is Bearer exactly with the OAuth base URL.
C14_SignerOfItsMode ==
    bg.pc = "flight" =>
      LET s == bg.signer
      IN /\ s.authType = (IF env[E_AUTH_TYPE] = "oauth" THEN "oauth" ELSE "basic")
         /\ s.authType = "oauth" =>
              /\ s.baseUrl = <<"https://api.atlassian.com/ex/jira/", env[K_SITE_ID], "/rest/api/3">>
              /\ s.scheme = "Bearer"
              /\ s.credential = <<env[K_ACCESS]>>
         /\ s.authType = "basic" =>
              /\ s.baseUrl = <<"https://", env[E_DOMAIN], ".atlassian.net/rest/api/3">>
              /\ s.scheme = "Basic"
              /\ s.credential = <<env[E_USERNAME], ":", env[E_API_TOKEN]>>
         /\ (s.scheme = "Bearer") = (s.baseUrl[1] = "https://api.atlassian.com/ex/jira/")

C14_Witness ==
    /\ bg.pc = "flight"
    /\ bg.signer.scheme = "Basic"
    /\ bg.signer.baseUrl[2] = "acme"
    /\ Truthy(env[K_ACCESS])
    /\ Truthy(env[K_SITE_ID])

\* C15: a request in flight keeps the base URL and credentials its
\* JiraService captured when it was built, whatever happens to process.env
\* meanwhile; a JiraService built in a step uses the mode, site and tokens
\* process.env holds at that step.
C15_SignerCaptured ==
    [][/\ (bg.pc = "flight" /\ bg'.pc = "flight") => bg'.signer = bg.signer
       /\ (bg.pc = "idle" /\ bg'.pc = "flight" /\ bg'.op \in {"tracker", "credentials"}) =>
            IF env'[E_AUTH_TYPE] = "oauth"
            THEN /\ bg'.signer.scheme = "Bearer"
                 /\ bg'.signer.credential = <<env'[K_ACCESS]>>
                 /\ bg'.signer.baseUrl[2] = env'[K_SITE_ID]
            ELSE /\ bg'.signer.scheme = "Basic"
                 /\ bg'.signer.credential = <<env'[E_USERNAME], ":", env'[E_API_TOKEN]>>
                 /\ bg'.signer.baseUrl[2] = env'[E_DOMAIN]]_vars

C15_Witness ==
    /\ bg.pc = "flight"
    /\ bg.op = "tracker"
    /\ bg.signer.scheme = "Basic"
    /\ env[E_AUTH_TYPE] = "oauth"
    /\ inv[1].pc = "done"
    /\ response[1].url = SuccessRedirect

\* Whether the token sequence part occurs in msg.
Contains(msg, part) ==
    \E k \in 1..(Len(msg) - Len(part) + 1) : SubSeq(msg, k, k + Len(part) - 1) = part

\* C16: a call of exchangeCodeForTokens, refreshAccessToken,
\* getAccessibleResources, getUserInfo or makeRequest that got a non-2xx
\* response rejects with an error whose message contains the status code and
\* the body text, and returns no data.
C16_HttpErrorCarriesStatusAndBody ==
    (call.pc = "settled" /\ call.net.kind = "http") =>
      /\ call.settled = "rejected"
      /\ Contains(call.message, <<"(", call.net.status, ")">>)
      /\ Contains(call.message, call.net.text)
      /\ call.data = NoData

C16_Witness ==
    /\ call.pc = "settled"
    /\ call.fn = "makeRequest"
    /\ call.net.kind = "http"
    /\ call.net.status = "401"
    /\ call.net.text = <<"invalid_grant">>
    /\ call.settled = "rejected"

\* C17: a call of exchangeCodeForTokens, refreshAccessToken,
\* getAccessibleResources or getUserInfo whose remote side never answers is
\* eventually rejected by its timer; the message of that rejection says
\* "timed out after 30 seconds" and differs from the message of every DNS,
\* network and HTTP failure of the same call; a call resolves with data only
\* on a 2xx whose body was read, otherwise it carries none.
C17_TimeoutRejects ==
    /\ \A fn \in {"exchangeCodeForTokens", "refreshAccessToken",
                  "getAccessibleResources", "getUserInfo"} :
         (call.pc = "flight" /\ call.fn = fn /\ call.remote = "silent")
           ~> (call.pc = "settled" /\ call.fn = fn /\ call.settled = "rejected"
                 /\ call.net.kind = "abort")
    /\ [](call.pc = "settled" /\ call.net.kind = "abort" =>
            /\ Contains(call.message,
                        <<"timed", SP, "out", SP, "after", SP, "30", SP, "seconds">>)
            /\ \A o \in CallOutcomes(call.fn) :
                 o.kind \in {"enotfound", "neterr", "http"}
                   => call.message # CallErrorMessage(call.fn, o))
    /\ [](/\ call.pc = "settled" => (call.settled = "resolved") = (call.net.kind = "ok")
          /\ call.settled # "resolved" => call.data = NoData)

C17_Witness ==
    /\ call.pc = "settled"
    /\ call.fn = "getUserInfo"
    /\ call.remote = "silent"
    /\ call.net.kind = "abort"
    /\ call.settled = "rejected"


\* C19: the status response has authenticated true exactly when process.env
\* holds JIRA_AUTH_TYPE oauth, an access token and a site id as the handler
\* answers; oauthConfigured true only with both client id and secret in the
\* store, and false only when the id was absent at the handler's first read
\* or the secret at its second; authType is JIRA_AUTH_TYPE or basic.  A
\* status request answered from the state GET /oauth-callback leaves with
\* its success redirect reports authenticated true and authType oauth.
C19_StatusReflectsState ==
    [][/\ (bg.pc = "read" /\ bg.op = "status" /\ bg'.pc = "idle") =>
            LET r == bg'.resp
            IN /\ r.status = 200
               /\ r.authenticated = ( /\ env[E_AUTH_TYPE] = "oauth"
                                      /\ Truthy(env[K_ACCESS])
                                      /\ Truthy(env[K_SITE_ID]) )
               /\ r.authType = (IF Truthy(env[E_AUTH_TYPE]) THEN env[E_AUTH_TYPE] ELSE "basic")
               /\ r.oauthConfigured =>
                    Truthy(store[K_CLIENT_ID]) /\ Truthy(store[K_CLIENT_SECRET])
               /\ ~r.oauthConfigured =>
                    ~Truthy(bg.cfgId) \/ ~Truthy(store[K_CLIENT_SECRET])
       /\ \A i \in Invocations :
            SuccessIssued(i) =>
              LET r == StatusBody(store'[K_CLIENT_ID], store'[K_CLIENT_SECRET], env')
              IN r.authenticated /\ r.authType = "oauth" /\ r.oauthConfigured]_vars

C19_Witness ==
    /\ inv[1].pc = "done"
    /\ response[1].url = SuccessRedirect
    /\ bg.pc = "idle"
    /\ bg.resp.status = 200
    /\ bg.resp.authenticated
    /\ bg.resp.authType = "oauth"
    /\ bg.resp.oauthConfigured


\* C18: the response of GET /api/oauth/config carries nothing but the three
\* booleans; hasClientId and hasClientSecret say whether the value read is
\* non-empty and configured is their conjunction; any other pair of values
\* with the same presence gives the same response.
C18_ConfigOnlyBooleans ==
    [][(bg.pc = "read" /\ bg.op = "config" /\ bg'.pc = "idle") =>
         LET id == bg.cfgId
             secret == store[K_CLIENT_SECRET]
             body == bg'.resp.config
         IN /\ bg'.resp = [NoBgResponse EXCEPT !.status = 200, !.config = body]
            /\ body \in [configured : BOOLEAN, hasClientId : BOOLEAN,
                         hasClientSecret : BOOLEAN]
            /\ body.hasClientId = Truthy(id)
            /\ body.hasClientSecret = Truthy(secret)
            /\ body.configured = (Truthy(id) /\ Truthy(secret))
            /\ \A id2 \in ConfigIds \cup {None}, secret2 \in ConfigSecrets \cup {None} :
                 (Truthy(id2) = Truthy(id) /\ Truthy(secret2) = Truthy(secret))
                   => ConfigBody(id2, secret2) = body]_vars

C18_Witness ==
    /\ bg.pc = "idle"
    /\ bg.resp.status = 200
    /\ bg.resp.config.configured
    /\ store[K_CLIENT_ID] = "abd"
    /\ store[K_CLIENT_SECRET] = "xyw"

\* This step of callback invocation i ends createJiraOAuthService().
ServiceConstruction(i) == inv[i].pc = "cfg_secret" /\ inv'[i].pc # "cfg_secret"

\* C20: when createJiraOAuthService() returns, with the client id it read
\* still the stored one, the service holds exactly the stored client id and
\* secret, in a callback and in auth-url alike; with either value absent from
\* the store the request gets the not-configured outcome (the redirect, or
\* 400), whatever earlier requests were answered.
C20_ConfigReadEachRequest ==
    [][/\ \A i \in Invocations :
            ServiceConstruction(i) =>
              LET id == store[K_CLIENT_ID]
                  secret == store[K_CLIENT_SECRET]
              IN /\ ~ConfigPresent(id, secret) =>
                      /\ inv'[i].pc = "done"
                      /\ response'[i] = IF inv[i].kind = "GET"
                                        THEN Redirect(NotConfiguredRedirect)
                                        ELSE JsonError(400, "OAuth not configured")
                 /\ (ConfigPresent(id, secret) /\ inv[i].cfgId = id) =>
                      /\ inv'[i].pc = "exchange"
                      /\ inv'[i].svc.clientId = id
                      /\ inv'[i].svc.clientSecret = secret
       /\ (bg.pc = "read" /\ bg.op = "authurl" /\ bg'.pc = "idle") =>
            LET id == store[K_CLIENT_ID]
                secret == store[K_CLIENT_SECRET]
            IN /\ ~ConfigPresent(id, secret) =>
                    bg'.resp.status = 400 /\ bg'.resp.authUrl = <<>>
               /\ (ConfigPresent(id, secret) /\ bg.cfgId = id) =>
                    /\ bg'.resp.status = 200
                    /\ Contains(bg'.resp.authUrl, <<"&", "client_id", "=", id, "&">>)]_vars

C20_Witness ==
    /\ inv[1].pc = "exchange"
    /\ inv[1].svc.clientId = "abd"
    /\ inv[1].svc.clientSecret = "xyw"
    /\ store[K_CLIENT_ID] = "abd"
    /\ store[K_CLIENT_SECRET] = "xyw"
    /\ Contains(bg.resp.authUrl, <<"&", "client_id", "=", "abc", "&">>)

\* C21: a callback goes on to the token exchange only with a state that
\* auth-url has returned and that no earlier callback has used.
C21_StateValidated ==
    [][\A i \in Invocations :
         (inv[i].pc # "exchange" /\ inv'[i].pc = "exchange")
           => inv[i].state \in csrf.issued \ csrf.consumed]_vars

\* C22: the query string of generateAuthUrl(state) gives back, parsed, the
\* state passed in, the redirectUri of the config, the fixed scope,
\* response_type code and prompt consent; the state in the response of
\* auth-url is the state parsed from the authUrl of that response.
C22_AuthUrlRoundTrip ==
    /\ gen.pc = "parsed" =>
          LET q == QueryOf(gen.url)
          IN /\ gen.parsed = gen.state
             /\ SearchParamsGet(q, "redirect_uri") = gen.config.redirectUri
             /\ SearchParamsGet(q, "client_id") = <<gen.config.clientId>>
             /\ SearchParamsGet(q, "scope") =
                  <<"read", ":", "jira-work", SP, "write", ":", "jira-work", SP,
                    "manage", ":", "jira-project", SP, "read", ":", "me", SP,
                    "offline_access">>
             /\ SearchParamsGet(q, "response_type") = <<"code">>
             /\ SearchParamsGet(q, "prompt") = <<"consent">>
    /\ bg.resp.authUrl # <<>> =>
          SearchParamsGet(QueryOf(bg.resp.authUrl), "state") = bg.resp.state

C22_Witness ==
    /\ gen.pc = "parsed"
    /\ gen.state = <<"&", "state", "=", "evil">>
    /\ gen.parsed = gen.state
    /\ bg.resp.state = <<"st2">>

\* The values that must stay on the server: client secrets, access tokens,
\* refresh tokens.
SecretValues ==
    (ClientSecrets \cup AccessTokens \cup RefreshTokens) \ {None, ""}

\* C23: no redirect URL sent by a callback holds a client secret, an access
\* token or a refresh token, on any path; two GET callbacks that ran to the
\* end with different tokens are sent to the same URL.
C23_RedirectHoldsNoSecret ==
    /\ \A i \in Invocations :
         \A k \in 1..Len(response[i].url) : response[i].url[k] \notin SecretValues
    /\ \A i, j \in Invocations :
         ( /\ inv[i].pc = "done" /\ inv[i].kind = "GET" /\ hist[i].envWrites > 0
           /\ inv[j].pc = "done" /\ inv[j].kind = "GET" /\ hist[j].envWrites > 0 )
           => response[i].url = response[j].url

C23_Witness ==
    /\ inv[1].pc = "done" /\ inv[1].kind = "GET" /\ hist[1].envWrites > 0
    /\ inv[2].pc = "done" /\ inv[2].kind = "GET" /\ hist[2].envWrites > 0
    /\ response[1].url = SuccessRedirect
    /\ store[K_ACCESS] = "AT1"
    /\ env[K_ACCESS] = "AT2"
    /\ store[K_CLIENT_SECRET] = "xyz"

\* C24: JIRA_OAUTH_CLIENT_ID and JIRA_OAUTH_CLIENT_SECRET change in the
\* store only in a step of POST /api/oauth/config, and only when the admin
\* password check has been passed.
C24_ConfigOnlyByAdmin ==
    [][(store'[K_CLIENT_ID] # store[K_CLIENT_ID]
          \/ store'[K_CLIENT_SECRET] # store[K_CLIENT_SECRET])
         => /\ cfgReq.pc \in {"w_id", "w_secret"}
            /\ cfgReq' # cfgReq
            /\ admin.isAuthenticated]_vars

\* C27: the callback URL the admin setup page shows, opened at the origin
\* of the deployment, is the redirectUri createJiraOAuthService builds; the
\* authorize URL and the service that makes the token exchange carry that
\* same redirectUri.
C27_CallbackUrlIsRedirectUri ==
    /\ (admin.pc # "closed" /\ admin.origin = DeploymentBaseUrl(env))
          => admin.callbackUrl = RedirectUri(env)
    /\ bg.resp.authUrl # <<>>
          => SearchParamsGet(QueryOf(bg.resp.authUrl), "redirect_uri") = RedirectUri(env)
    /\ \A i \in Invocations :
         inv[i].pc = "exchange" => inv[i].svc.redirectUri = RedirectUri(env)

\* C25: a callback invocation calls exchangeCodeForTokens at most once and
\* getAccessibleResources at most once; it calls getAccessibleResources
\* only when its exchange has returned tokens, and writes to the store only
\* when its discovery has returned a list that is not empty.
C25_SequentialNoRetry ==
    [][\A i \in Invocations :
         /\ hist'[i].exchange <= 1
         /\ hist'[i].discovery <= 1
         /\ hist'[i].discovery > hist[i].discovery =>
               /\ hist[i].exchange = 1
               /\ inv[i].pc = "exchange_ret"
               /\ inv[i].net.kind = "ok"
         /\ hist'[i].sets > hist[i].sets =>
               /\ hist[i].discovery = 1
               /\ hist[i].listed > 0
               /\ inv[i].kind = "GET"]_vars

C25_Witness ==
    /\ inv[1].pc = "done"
    /\ inv[1].kind = "GET"
    /\ hist[1].exchange = 1
    /\ hist[1].discovery = 1
    /\ hist[1].listed = 2
    /\ hist[1].sets = 5

\* C26: the Credential Store writes of the callback are per key: a step
\* sets at most one key, an invocation at the access-token write sets only
\* JIRA_OAUTH_ACCESS_TOKEN to its own token and at the site-id write only
\* JIRA_SITE_ID to its own site's id, whichever invocation last set the
\* other key; nothing ties the two keys to one writer, so (the witness)
\* two invocations that both succeed can leave the store holding the
\* access token of one with the site id of the other.
C26_PerKeyWrites ==
    [][/\ Cardinality({k \in StoreKeys : store'[k] # store[k]}) <= 1
       /\ \A i \in Invocations :
            hist'[i].sets > hist[i].sets =>
              /\ inv[i].pc = "w_access" =>
                    /\ store' = [store EXCEPT ![K_ACCESS] = inv[i].tokens.access_token]
                    /\ storeWriter'[K_SITE_ID] = storeWriter[K_SITE_ID]
              /\ inv[i].pc = "w_site_id" =>
                    /\ store' = [store EXCEPT ![K_SITE_ID] = inv[i].site.id]
                    /\ storeWriter'[K_ACCESS] = storeWriter[K_ACCESS]]_vars

C26_Witness ==
    /\ \A i \in Invocations :
         /\ inv[i].kind = "GET"
         /\ inv[i].pc = "done"
         /\ response[i] = Redirect(SuccessRedirect)
    /\ storeWriter[K_ACCESS] = 1
    /\ store[K_ACCESS] = "AT1"
    /\ storeWriter[K_SITE_ID] = 2
    /\ store[K_SITE_ID] = "site-2"
    /\ storeWriter[K_SITE_URL] = 1
    /\ store[K_SITE_URL] = "https://acme.atlassian.net"

\* C28: a request of the FileMakerService fetches its endpoint at most
\* twice (the first attempt and one retry after a 401), whatever the
\* server answers.
C28_RetriesAtMostOnce == fm.attempts <= 2

\* The site a callback invocation about to assign process.env has selected.
SelectedSite(i) ==
    IF inv[i].kind = "GET" THEN inv[i].site ELSE PrimarySite(inv[i].net.resources)

\* C29: the process.env access token and site id change only in a step of one callback invocation that
\* assigns AuthMode, the access token and the site id together: after the
\* step AuthMode is oauth and the access token and the site id are both
\* that invocation's, under any interleaving of GET and POST callbacks.
C29_EnvAssignedTogether ==
    [][/\ (env'[K_ACCESS] # env[K_ACCESS] \/ env'[K_SITE_ID] # env[K_SITE_ID])
            => \E i \in Invocations : hist'[i].envWrites > hist[i].envWrites
       /\ \A i \in Invocations :
            hist'[i].envWrites > hist[i].envWrites =>
              /\ env'[E_AUTH_TYPE] = "oauth"
              /\ env'[K_ACCESS] = EnvString(inv[i].tokens.access_token)
              /\ env'[K_SITE_ID] = EnvString(SelectedSite(i).id)
              /\ SelectedSite(i) \in Sites]_vars

C29_Witness ==
    /\ inv[1].kind = "GET" /\ inv[1].pc = "done" /\ hist[1].envWrites = 1
    /\ inv[2].kind = "POST" /\ inv[2].pc = "done" /\ hist[2].envWrites = 1
    /\ response[2].type = "json" /\ response[2].body.success
    /\ env[E_AUTH_TYPE] = "oauth"
    /\ env[K_ACCESS] = "AT1"
    /\ storeWriter[K_SITE_ID] = 1
    /\ store[K_SITE_ID] = "site-2"
    /\ env[K_SITE_ID] = "site-2"

\* A JiraService built from process.env e without a config is constructed,
\* is of oauth mode, names site id sid in its base URL and sends the access
\* token tok as Bearer.
OAuthSignerFor(e, tok, sid) ==
    LET c == SignerConfigFromEnv(e)
    IN /\ SignerComplete(c)
       /\ Signer(c).authType = "oauth"
       /\ Signer(c).baseUrl = <<"https://api.atlassian.com/ex/jira/", sid, "/rest/api/3">>
       /\ Signer(c).scheme = "Bearer"
       /\ Signer(c).credential = <<tok>>

\* This step is a callback invocation assigning process.env.
CallbackWritesEnv == \E i \in Invocations : hist'[i].envWrites > hist[i].envWrites

\* C30: when GET /oauth-callback issues the success redirect, a JiraService
\* built from process.env is constructed in oauth mode with the site id and
\* access token of that invocation; this stays so in every step that is not
\* a callback assigning process.env again (the credentials route included),
\* and a /api/jira/* request made meanwhile is issued with such a service
\* instead of failing on an incomplete configuration.
C30_SignerAfterSuccess ==
    [][/\ \A i \in Invocations :
            SuccessIssued(i) =>
              OAuthSignerFor(env', inv[i].tokens.access_token, inv[i].site.id)
       /\ LET tok == env[K_ACCESS]
              sid == env[K_SITE_ID]
          IN (OAuthSignerFor(env, tok, sid) /\ ~CallbackWritesEnv) =>
               /\ OAuthSignerFor(env', tok, sid)
               /\ (bg.pc = "idle" /\ bg' # bg /\ bg'.op = "tracker") =>
                     /\ bg'.pc = "flight"
                     /\ bg'.signer.authType = "oauth"
                     /\ bg'.signer.baseUrl[2] = sid
                     /\ bg'.signer.credential = <<tok>>]_vars

C30_Witness ==
    /\ inv[1].kind = "GET"
    /\ inv[1].pc = "done"
    /\ response[1].url = SuccessRedirect
    /\ env[E_DOMAIN] = "acme"
    /\ bg.pc = "flight"
    /\ bg.op = "tracker"
    /\ bg.signer.scheme = "Bearer"
    /\ bg.signer.baseUrl[2] = "site-1"
    /\ bg.signer.credential = <<"AT1">>

====
